---- MODULE Spec2Model ----
(***************************************************************************)
(* A model of callhorizons.query (src/callhorizons/callhorizons.py): the   *)
(* designation grammar (parse_comet, parse_asteroid, isorbit_record,       *)
(* _char2int), the identifier classification done by get_ephemerides and   *)
(* get_elements, and the rendering of the COMMAND parameter of the url.    *)
(*                                                                         *)
(* Text is modelled as a sequence of one-character strings, so that        *)
(* regular expressions, slices and conversions are computed character by   *)
(* character, as Python does.                                              *)
(***************************************************************************)
EXTENDS Integers, Sequences, FiniteSets, TLC

VARIABLES
    targetname,      \* self.targetname: the text given to the constructor
    not_smallbody,   \* self.not_smallbody
    cap,             \* self.cap
    comet,           \* self.comet
    asteroid,        \* self.asteroid
    start_epoch,     \* self.start_epoch, None or a value
    stop_epoch,      \* self.stop_epoch
    step_size,       \* self.step_size
    discreteepochs,  \* self.discreteepochs, None or a list
    url,             \* self.url, None or the url of the last request
    data,            \* self.data, None or the table of the last parse
    response,        \* src of the call that ended last, None when it read none
    urlerrors,       \* the tries of the last call the service answers with URLError
    tries,           \* the calls of urlopen the call that ended last made
    ret,             \* the last call: its name, outcome and returned value
    calls            \* the grammar functions the last call went through

vars == <<targetname, not_smallbody, cap, comet, asteroid, start_epoch,
          stop_epoch, step_size, discreteepochs, url, data, response, urlerrors,
          tries, ret, calls>>

-----------------------------------------------------------------------------
(* Characters and Python's str methods.                                     *)

DigitSeq == <<"0","1","2","3","4","5","6","7","8","9">>
UpperSeq == <<"A","B","C","D","E","F","G","H","I","J","K","L","M",
              "N","O","P","Q","R","S","T","U","V","W","X","Y","Z">>
LowerSeq == <<"a","b","c","d","e","f","g","h","i","j","k","l","m",
              "n","o","p","q","r","s","t","u","v","w","x","y","z">>

Range(f) == {f[i] : i \in DOMAIN f}

Digit == Range(DigitSeq)
Upper == Range(UpperSeq)
Lower == Range(LowerSeq)
Alpha == Upper \cup Lower

\* The backspace character: '\b' inside a Python string literal that is not raw.
BS == "\\b"

\* Every character a target name is built from in this model.
Chars == Digit \cup Alpha \cup {" ", "_", "-", "/", "(", ")", ";", "=", BS}

IndexOf(c, seq) == CHOOSE i \in DOMAIN seq : seq[i] = c

\* s[a:b] of Python for 0 <= a, 0 <= b (0-based, end exclusive, clamped).
Slice(s, a, b) ==
    LET lo == IF a > Len(s) THEN Len(s) ELSE a
        hi == IF b > Len(s) THEN Len(s) ELSE b
    IN  IF hi <= lo THEN <<>> ELSE SubSeq(s, lo + 1, hi)

\* s[a:b] of Python with negative indices counted from the end.
PySlice(s, a, b) ==
    LET na == IF a < 0 THEN (IF Len(s) + a < 0 THEN 0 ELSE Len(s) + a) ELSE a
        nb == IF b < 0 THEN (IF Len(s) + b < 0 THEN 0 ELSE Len(s) + b) ELSE b
    IN  Slice(s, na, nb)

RECURSIVE lstrip(_, _)
lstrip(s, set) ==
    IF s # <<>> /\ Head(s) \in set THEN lstrip(Tail(s), set) ELSE s

RECURSIVE rstrip(_, _)
rstrip(s, set) ==
    IF s # <<>> /\ s[Len(s)] \in set
    THEN rstrip(SubSeq(s, 1, Len(s) - 1), set) ELSE s

\* The newline that ends a line of a response
NL == "\n"

\* The whitespace characters of the texts of this model
Whitespace == {" ", NL}

\* str.strip(): whitespace off both ends
strip(s) == rstrip(lstrip(s, Whitespace), Whitespace)

\* str.translate(str.maketrans('()', '  '))
translate(s) == [i \in DOMAIN s |-> IF s[i] \in {"(", ")"} THEN " " ELSE s[i]]

\* str.replace(old, new) for a one-character old; new is a text (maybe empty).
RECURSIVE replace(_, _, _)
replace(s, old, new) ==
    IF s = <<>> THEN <<>>
    ELSE (IF Head(s) = old THEN new ELSE <<Head(s)>>) \o replace(Tail(s), old, new)

\* str.find(p): 0-based index of the first occurrence of p in s, or -1.
find(s, p) ==
    LET hits == {i \in 0..(Len(s) - Len(p)) : Slice(s, i, i + Len(p)) = p}
    IN  IF hits = {} THEN -1 ELSE CHOOSE i \in hits : \A j \in hits : i <= j

\* `p in s` for two texts
contains(s, p) ==
    \E i \in 0..(Len(s) - Len(p)) : \A j \in 1..Len(p) : s[i + j] = p[j]

\* The position of the first sep in s from position start on, 0 for none
first_at(s, sep, start) ==
    IF \E i \in start..Len(s) : s[i] = sep
    THEN CHOOSE i \in start..Len(s) : s[i] = sep /\ \A j \in start..(i - 1) : s[j] # sep
    ELSE 0

\* str.split(sep) for a one-character sep: the pieces between the separators,
\* empty pieces kept.  split_from gives the pieces of s from position start
\* on, at the next separator when there is one.
RECURSIVE split_from(_, _, _, _)
split_from(s, sep, start, at) ==
    IF at = 0 THEN <<SubSeq(s, start, Len(s))>>
    ELSE <<SubSeq(s, start, at - 1)>>
         \o split_from(s, sep, at + 1, first_at(s, sep, at + 1))

split(s, sep) == split_from(s, sep, 1, first_at(s, sep, 1))

\* The first whitespace-free word of s and the rest, s not starting with
\* whitespace: the length of the word
RECURSIVE word_len(_)
word_len(s) ==
    IF s = <<>> \/ Head(s) \in Whitespace THEN 0 ELSE 1 + word_len(Tail(s))

\* str.split(): the words between runs of whitespace
RECURSIVE split_ws(_)
split_ws(s) ==
    IF lstrip(s, Whitespace) = <<>> THEN <<>>
    ELSE <<Slice(lstrip(s, Whitespace), 0, word_len(lstrip(s, Whitespace)))>>
         \o split_ws(Slice(lstrip(s, Whitespace), word_len(lstrip(s, Whitespace)),
                           Len(s)))

isdigit(s) == s # <<>> /\ \A i \in DOMAIN s : s[i] \in Digit
isalpha(s) == s # <<>> /\ \A i \in DOMAIN s : s[i] \in Alpha
isupper(s) == (\E i \in DOMAIN s : s[i] \in Upper) /\ \A i \in DOMAIN s : s[i] \notin Lower

\* int(text) for a text of decimal digits.
RECURSIVE int(_)
int(s) ==
    IF s = <<>> THEN 0
    ELSE 10 * int(SubSeq(s, 1, Len(s) - 1)) + (IndexOf(s[Len(s)], DigitSeq) - 1)

\* str(n) for n >= 0.
RECURSIVE str(_)
str(n) ==
    IF n < 10 THEN <<DigitSeq[n + 1]>>
    ELSE str(n \div 10) \o <<DigitSeq[(n % 10) + 1]>>

\* int(char, 36) for a letter or a digit.
int36(c) ==
    IF c \in Digit THEN IndexOf(c, DigitSeq) - 1
    ELSE IF c \in Upper THEN 9 + IndexOf(c, UpperSeq)
    ELSE 9 + IndexOf(c, LowerSeq)

\* Python values: None, a text, an integer (one record shape for all three).
None == [ty |-> "None", s |-> <<>>, n |-> 0]
StrV(x) == [ty |-> "str", s |-> x, n |-> 0]
IntV(k) == [ty |-> "int", s |-> <<>>, n |-> k]

-----------------------------------------------------------------------------
(* Python's re module: a backtracking matcher over pattern trees.  A pattern *)
(* node is a record: t is the kind, s a character set, xs the sub-patterns,  *)
(* lo and hi the repetition bounds (hi = -1: unbounded), n a group number.   *)

Node(t, s, xs, lo, hi, n) == [t |-> t, s |-> s, xs |-> xs, lo |-> lo, hi |-> hi, n |-> n]
Set(S)         == Node("set", S, <<>>, 0, 0, 0)       \* [...]
NotSet(S)      == Node("not", S, <<>>, 0, 0, 0)       \* [^...]
Lit(c)         == Set({c})                            \* one literal character
Cat(xs)        == Node("cat", {}, xs, 0, 0, 0)        \* concatenation
Alt(xs)        == Node("alt", {}, xs, 0, 0, 0)        \* a|b|..., leftmost first
Rep(x, lo, hi) == Node("rep", {}, <<x>>, lo, hi, 0)   \* greedy x{lo,hi}
Grp(n, x)      == Node("grp", {}, <<x>>, 0, 0, n)     \* capturing group n
Close(n, from) == Node("close", {}, <<>>, from, 0, n) \* end of group n
Bol            == Node("bol", {}, <<>>, 0, 0, 0)      \* ^
Eol            == Node("eol", {}, <<>>, 0, 0, 0)      \* $

NoMatch == [ok |-> FALSE, start |-> 0, end |-> 0, caps |-> <<>>]

\* Does the character class x ([...] or [^...]) accept the character c?
Accepts(x, c) == IF x.t = "set" THEN c \in x.s ELSE c \notin x.s

\* The longest run of characters of s from position i that the class x accepts,
\* at most hi of them (hi = -1: no limit).
Run(x, s, i, hi) ==
    LET room == Len(s) - i + 1
        most == IF hi = -1 \/ hi > room THEN room ELSE hi
        ks   == {k \in 0..most : \A j \in i..(i + k - 1) : Accepts(x, s[j])}
    IN  CHOOSE k \in ks : \A l \in ks : l <= k

\* The first way, in the order a backtracking engine tries them, to match the
\* patterns of K one after the other from position i of s (1-based); caps are
\* the groups closed so far, <<0, 0>> for a group that took no part.
\* RepSet is the greedy repetition of a character class: the longest run
\* first, then one character less at a time, down to lo.
RECURSIVE MatchK(_, _, _, _)
RECURSIVE RepSet(_, _, _, _, _, _)
RepSet(K, s, i, caps, k, lo) ==
    IF k < lo THEN NoMatch
    ELSE LET a == MatchK(K, s, i + k, caps)
         IN  IF a.ok THEN a ELSE RepSet(K, s, i, caps, k - 1, lo)

MatchK(K, s, i, caps) ==
    IF K = <<>> THEN [ok |-> TRUE, start |-> 0, end |-> i, caps |-> caps]
    ELSE
    LET h == Head(K)
        r == Tail(K)
    IN  CASE h.t \in {"set", "not"} ->
               IF i <= Len(s) /\ Accepts(h, s[i]) THEN MatchK(r, s, i + 1, caps) ELSE NoMatch
          [] h.t = "cat" -> MatchK(h.xs \o r, s, i, caps)
          [] h.t = "alt" ->
               IF h.xs = <<>> THEN NoMatch
               ELSE LET a == MatchK(<<Head(h.xs)>> \o r, s, i, caps)
                    IN  IF a.ok THEN a ELSE MatchK(<<Alt(Tail(h.xs))>> \o r, s, i, caps)
          [] h.t = "rep" /\ h.xs[1].t \in {"set", "not"} ->
               RepSet(r, s, i, caps, Run(h.xs[1], s, i, h.hi), h.lo)
          [] h.t = "rep" /\ h.xs[1].t \notin {"set", "not"} ->
               IF h.hi = 0 THEN MatchK(r, s, i, caps)
               ELSE LET again == Rep(h.xs[1], IF h.lo > 0 THEN h.lo - 1 ELSE 0,
                                     IF h.hi = -1 THEN -1 ELSE h.hi - 1)
                        more  == MatchK(<<h.xs[1], again>> \o r, s, i, caps)
                    IN  IF more.ok THEN more
                        ELSE IF h.lo = 0 THEN MatchK(r, s, i, caps) ELSE NoMatch
          [] h.t = "grp" -> MatchK(<<h.xs[1], Close(h.n, i)>> \o r, s, i, caps)
          [] h.t = "close" -> MatchK(r, s, i, [caps EXCEPT ![h.n] = <<h.lo, i>>])
          [] h.t = "bol" -> IF i = 1 THEN MatchK(r, s, i, caps) ELSE NoMatch
          [] h.t = "eol" -> IF i = Len(s) + 1 THEN MatchK(r, s, i, caps) ELSE NoMatch

\* re.match(pat, s): a match at the start of s; ng is the number of groups.
match(pat, ng, s) == MatchK(<<pat>>, s, 1, [g \in 1..ng |-> <<0, 0>>])

\* The leftmost match of pat in s at or after position pos.
RECURSIVE search(_, _, _, _)
search(pat, ng, s, pos) ==
    IF pos > Len(s) + 1 THEN NoMatch
    ELSE LET m == MatchK(<<pat>>, s, pos, [g \in 1..ng |-> <<0, 0>>])
         IN  IF m.ok THEN [m EXCEPT !.start = pos] ELSE search(pat, ng, s, pos + 1)

\* The text of the groups of a match, '' for a group that took no part.
groups(m, ng, s) ==
    [g \in 1..ng |-> IF m.caps[g] = <<0, 0>> THEN <<>>
                     ELSE SubSeq(s, m.caps[g][1], m.caps[g][2] - 1)]

\* re.findall(pat, s) for a pattern with ng >= 2 groups: the tuples of group
\* texts of the successive non-overlapping matches, left to right.
RECURSIVE findallFrom(_, _, _, _)
findallFrom(pat, ng, s, pos) ==
    LET m == search(pat, ng, s, pos)
    IN  IF ~m.ok THEN <<>>
        ELSE <<groups(m, ng, s)>>
             \o findallFrom(pat, ng, s, IF m.end = m.start THEN m.end + 1 ELSE m.end)

findall(pat, ng, s) == findallFrom(pat, ng, s, 1)

-----------------------------------------------------------------------------
(* The patterns of the designation grammar.                                 *)

D19    == Digit \ {"0"}                         \* [1-9]
PDCXAI == {"P", "D", "C", "X", "A", "I"}        \* [PDCXAI]
Blank_ == {" ", "_"}                            \* [ _]

\* parse_comet: pat
comet_pat ==
    Alt(<<
      \* ^(([1-9]+[PDCXAI](-[A-Z]{1,2})?)|[PDCXAI]/)           prefix, groups 1-3
      Cat(<<Bol,
            Grp(1, Alt(<<
               Grp(2, Cat(<<Rep(Set(D19), 1, -1), Set(PDCXAI),
                            Rep(Grp(3, Cat(<<Lit("-"), Rep(Set(Upper), 1, 2)>>)), 0, 1)>>)),
               Cat(<<Set(PDCXAI), Lit("/")>>)>>))>>),
      \* ([-]?[0-9]{3,4}[ _][A-Z]{1,2}[0-9]{1,3}(-[1-9A-Z]{0,2})?)  designation, groups 4-5
      Grp(4, Cat(<<Rep(Lit("-"), 0, 1), Rep(Set(Digit), 3, 4), Set(Blank_),
                   Rep(Set(Upper), 1, 2), Rep(Set(Digit), 1, 3),
                   Rep(Grp(5, Cat(<<Lit("-"), Rep(Set(D19 \cup Upper), 0, 2)>>)), 0, 1)>>)),
      \* (([A-Z][a-z]?[A-Z]*[a-z]*[ -]?[A-Z]?[1-9]*[a-z]*)( [1-9A-Z]{1,2})*)  name, groups 6-8
      Grp(6, Cat(<<
         Grp(7, Cat(<<Set(Upper), Rep(Set(Lower), 0, 1), Rep(Set(Upper), 0, -1),
                      Rep(Set(Lower), 0, -1), Rep(Set({" ", "-"}), 0, 1),
                      Rep(Set(Upper), 0, 1), Rep(Set(D19), 0, -1),
                      Rep(Set(Lower), 0, -1)>>)),
         Rep(Grp(8, Cat(<<Lit(" "), Rep(Set(D19 \cup Upper), 1, 2)>>)), 0, -1)>>))
    >>)

comet_groups == 8

\* parse_asteroid: pat.  '\b' in the pattern text is the backspace character.
asteroid_pat ==
    Alt(<<
      \* (([1-2][0-9]{0,3}[ _][A-Z]{2}[0-9]{0,3})|([1-9][0-9]{3}[ _](P-L|T-[1-3])))  groups 1-4
      Grp(1, Alt(<<
         Grp(2, Cat(<<Set({"1", "2"}), Rep(Set(Digit), 0, 3), Set(Blank_),
                      Rep(Set(Upper), 2, 2), Rep(Set(Digit), 0, 3)>>)),
         Grp(3, Cat(<<Set(D19), Rep(Set(Digit), 3, 3), Set(Blank_),
                      Grp(4, Alt(<<Cat(<<Lit("P"), Lit("-"), Lit("L")>>),
                                   Cat(<<Lit("T"), Lit("-"), Set({"1", "2", "3"})>>)>>))>>))>>)),
      \* ([IJKL][0-9]{2}[A-Z][0-9a-z][0-9][A-Z])   packed designation, group 5
      Grp(5, Cat(<<Set({"I", "J", "K", "L"}), Rep(Set(Digit), 2, 2), Set(Upper),
                   Set(Digit \cup Lower), Set(Digit), Set(Upper)>>)),
      \* ([A-Za-z][0-9]{4})   packed number, group 6
      Grp(6, Cat(<<Set(Alpha), Rep(Set(Digit), 4, 4)>>)),
      \* ([A-Z][A-Z]*[a-z][a-z]*[^0-9]*[ -]?[A-Z]?[a-z]*[^0-9]*)   name, group 7
      Grp(7, Cat(<<Set(Upper), Rep(Set(Upper), 0, -1), Set(Lower), Rep(Set(Lower), 0, -1),
                   Rep(NotSet(Digit), 0, -1), Rep(Set({" ", "-"}), 0, 1),
                   Rep(Set(Upper), 0, 1), Rep(Set(Lower), 0, -1),
                   Rep(NotSet(Digit), 0, -1)>>)),
      \* ([1-9][0-9]*(\b|$))   number, groups 8-9
      Grp(8, Cat(<<Set(D19), Rep(Set(Digit), 0, -1), Grp(9, Alt(<<Lit(BS), Eol>>))>>))
    >>)

asteroid_groups == 9

\* parse_asteroid: non_pat, ([1-2][0-9]{0,3}[ _][A-Z][0-9]*(\b|$)), groups 1-2
asteroid_non_pat ==
    Grp(1, Cat(<<Set({"1", "2"}), Rep(Set(Digit), 0, 3), Set(Blank_), Set(Upper),
                 Rep(Set(Digit), 0, -1), Grp(2, Alt(<<Lit(BS), Eol>>))>>))

asteroid_non_groups == 2

\* isorbit_record: '^9[0-9]{5}$'
orbit_pat == Cat(<<Bol, Lit("9"), Rep(Set(Digit), 5, 5), Eol>>)

-----------------------------------------------------------------------------
(* The designation grammar.                                                 *)

\* _char2int with the slip of leaving out the 26 of the lowercase letters
_char2int_no_offset(char) ==
    IF isdigit(<<char>>) THEN int(<<char>>)
    ELSE int36(char)

\* _char2int(char)
_char2int(char) ==
    IF isdigit(<<char>>) THEN int(<<char>>)
    ELSE IF isupper(<<char>>) THEN int36(char)
    ELSE 26 + int36(char)

\* parse_comet: the loop over the matches, el[0], el[3], el[5] being groups
\* 1, 4 and 6.  acc is (desig, prefixnumber, name) so far.
RECURSIVE comet_loop(_, _)
comet_loop(m, acc) ==
    IF m = <<>> THEN acc
    ELSE LET el == Head(m)
             a1 == IF Len(el[1]) > 0
                   THEN [acc EXCEPT !.prefixnumber = StrV(replace(el[1], "/", <<>>))]
                   ELSE acc
             a2 == IF Len(el[4]) > 0
                   THEN [a1 EXCEPT !.desig = StrV(replace(el[4], "_", <<" ">>))]
                   ELSE a1
             a3 == IF Len(el[6]) > 0 /\ Len(el[6]) > 1
                   THEN [a2 EXCEPT !.name = StrV(el[6])]
                   ELSE a2
         IN  comet_loop(Tail(m), a3)

\* parse_comet() on the target name t: (desig, prefixnumber, name)
parse_comet(t) ==
    comet_loop(findall(comet_pat, comet_groups, strip(t)),
               [desig |-> None, prefixnumber |-> None, name |-> None])

\* parse_asteroid: raw with the first occurrence of p taken out,
\* raw[:raw.find(p)] + raw[raw.find(p)+len(p):]
cut(raw, p) ==
    PySlice(raw, 0, find(raw, p)) \o Slice(raw, find(raw, p) + Len(p), Len(raw))

\* parse_asteroid: the loop that rejects the non_pat matches; each ps is the
\* tuple of the two groups of one match.
RECURSIVE reject(_, _)
reject(non_m, raw) ==
    IF non_m = <<>> THEN raw
    ELSE LET ps == Head(non_m)
             r1 == IF ps[1] = <<>> THEN raw ELSE cut(raw, ps[1])
             r2 == IF ps[2] = <<>> THEN r1 ELSE cut(r1, ps[2])
         IN  reject(Tail(non_m), r2)

\* parse_asteroid: the unpacking of a packed designation (el[4])
unpack_desig(ident) ==
    IF Len(strip(ident)) < 7 /\ isdigit(Slice(ident, 0, 4)) /\ isalpha(Slice(ident, 4, 6))
    THEN Slice(ident, 0, 4) \o <<" ">> \o Slice(ident, 4, 6)
    ELSE IF find(ident, <<"P", "L", "S">>) = 0
    THEN Slice(ident, 3, Len(ident)) \o <<" ", "P", "-", "L">>
    ELSE IF find(ident, <<"T", "1", "S">>) = 0
    THEN Slice(ident, 3, Len(ident)) \o <<" ", "T", "-", "1">>
    ELSE IF find(ident, <<"T", "2", "S">>) = 0
    THEN Slice(ident, 3, Len(ident)) \o <<" ", "T", "-", "2">>
    ELSE IF find(ident, <<"T", "3", "S">>) = 0
    THEN Slice(ident, 3, Len(ident)) \o <<" ", "T", "-", "3">>
    ELSE IF isdigit(Slice(ident, 0, 4)) /\ isalpha(Slice(ident, 4, 6)) /\ ident[5] # " "
    THEN Slice(ident, 0, 4) \o <<" ">> \o Slice(ident, 4, Len(ident))
    ELSE IF isalpha(<<ident[1]>>) /\ isdigit(Slice(ident, 1, 3))
            /\ isalpha(<<ident[Len(ident)]>>) /\ isdigit(<<ident[Len(ident) - 1]>>)
    THEN LET yr  == str(_char2int(ident[1])) \o Slice(ident, 1, 3)
             let == <<ident[4], ident[Len(ident)]>>
             num == lstrip(str(_char2int(ident[5])) \o <<ident[6]>>, {"0"})
         IN  yr \o <<" ">> \o let \o num
    ELSE ident

\* parse_asteroid: the unpacking of a packed number (el[5])
unpack_number(ident) == int(str(_char2int(ident[1])) \o Slice(ident, 1, Len(ident)))

\* parse_asteroid: the loop over the matches, el[0], el[4], el[5], el[6], el[7]
\* being groups 1, 5, 6, 7 and 8.  float() of a text with a character that is
\* neither a digit nor whitespace raises ValueError, which ends the call.
RECURSIVE asteroid_loop(_, _)
asteroid_loop(m, acc) ==
    IF m = <<>> \/ acc.exc # "" THEN acc
    ELSE LET el == Head(m)
             nx == IF Len(el[1]) > 0 THEN [acc EXCEPT !.desig = StrV(el[1])]
                   ELSE IF Len(el[5]) > 0
                        THEN [acc EXCEPT !.desig = StrV(unpack_desig(el[5]))]
                   ELSE IF Len(el[6]) > 0
                        THEN [acc EXCEPT !.number = IntV(unpack_number(el[6]))]
                   ELSE IF Len(el[8]) > 0
                        THEN IF isdigit(strip(translate(el[8])))
                             THEN [acc EXCEPT !.number = IntV(int(strip(translate(el[8]))))]
                             ELSE [acc EXCEPT !.exc = "ValueError"]
                   ELSE IF Len(el[7]) > 0 /\ Len(strip(el[7])) > 1
                        THEN [acc EXCEPT !.name = StrV(strip(el[7]))]
                   ELSE acc
         IN  asteroid_loop(Tail(m), nx)

\* parse_asteroid() on the target name t: (desig, number, name), or exc set
\* when the call raises.
parse_asteroid(t) ==
    LET raw0 == strip(translate(t))
        raw  == reject(findall(asteroid_non_pat, asteroid_non_groups, raw0), raw0)
    IN  asteroid_loop(findall(asteroid_pat, asteroid_groups, raw),
                      [desig |-> None, number |-> None, name |-> None, exc |-> ""])

\* isorbit_record with the slip of leaving out the '$' of the pattern
isorbit_record_unanchored(t) ==
    match(Cat(<<Bol, Lit("9"), Rep(Set(Digit), 5, 5)>>), 1, strip(t)).ok

\* isorbit_record() on the target name t
isorbit_record(t) == match(orbit_pat, 1, strip(t)).ok

-----------------------------------------------------------------------------
(* The inputs: target names, epochs and responses.                          *)

\* The longest text over ShortAlphabet among the target names
MaxLen == 3
\* The most digits of a comet or asteroid number among the target names
MaxNumLen == 3
\* The most rows of a response
MaxRows == 2

\* All texts of length n over the characters S
Texts(S, n) == [1..n -> S]
\* All texts of length lo..hi over the characters S
TextsUpTo(S, lo, hi) == UNION {Texts(S, n) : n \in lo..hi}

ShortAlphabet == {"9", "1", "P", "a", " ", "/"}
ShortNames == TextsUpTo(ShortAlphabet, 0, MaxLen)

\* Decimal numbers without a leading zero
Numbers == {n \in TextsUpTo({"0", "1", "9"}, 1, MaxNumLen) : n[1] # "0"}

Halley   == <<"H","a","l","l","e","y">>
Tempel1  == <<"T","e","m","p","e","l"," ","1">>
Einstein == <<"E","i","n","s","t","e","i","n">>
Sy       == <<"S","y">>
BodyNames == {Halley, Tempel1, Einstein, Sy}

\* "<N>P/<name>", "<N>D/<name>", "<N>P", "<N>P-B"
CometNames ==
    {n \o <<k, "/">> \o b : n \in Numbers, k \in {"P", "D"}, b \in BodyNames}
    \cup {n \o <<"P">> : n \in Numbers}
    \cup {n \o <<"P", "-", "B">> : n \in Numbers}

\* "X/1106 C1", "C/2013 US10", "P/1994 N2 (Halley)"
ProvisionalComets ==
    {<<"X","/","1","1","0","6"," ","C","1">>,
     <<"C","/","2","0","1","3"," ","U","S","1","0">>,
     <<"C","/","-","1","4","6"," ","P","1">>,
     <<"P","/","1","9","9","4"," ","N","2"," ","(">> \o Halley \o <<")">>}

\* "(<n>) <Name>", "<n> <Name>", "<n>", "<Name>"
AsteroidNames ==
    {<<"(">> \o n \o <<")", " ">> \o b : n \in Numbers, b \in BodyNames \ {Tempel1}}
    \cup {n \o <<" ">> \o b : n \in Numbers, b \in {Sy}}
    \cup Numbers
    \cup BodyNames

\* "2014 MU69", "2001 AT1", "2017 U1", "4101 T-3", "6675 P-L", "1989AB"
ProvisionalAsteroids ==
    {<<"2","0","1","4"," ","M","U","6","9">>, <<"2","0","0","1"," ","A","T","1">>,
     <<"2","0","1","7"," ","U","1">>, <<"4","1","0","1"," ","T","-","3">>,
     <<"6","6","7","5"," ","P","-","L">>, <<"1","9","8","9","A","B">>,
     <<"(","1",")"," ","6","6","7","5"," ","P","-","L">>}

\* Packed designations <letter-or-digit><2 digits><letter><alnum><digit><letter>
Packed7 ==
    {<<c>> \o yy \o <<h, n1, n2, o>> :
        c \in {"I", "J", "K", "L", "A", "a", "1"},
        yy \in {<<"9","5">>, <<"0","7">>, <<"0","0">>},
        h \in {"A", "X"}, n1 \in {"0", "9", "a", "f", "z", "A"},
        n2 \in {"0", "8"}, o \in {"A", "Z"}}

\* Packed numbers <letter><4 digits>
Packed5 == {<<c>> \o d : c \in Alpha, d \in Texts({"0", "9"}, 4)}
           \cup {<<"G","3","6","9","3">>}

\* Packed survey designations PLS<digits>, T1S<digits>, T2S<digits>, T3S<digits>
PackedSurvey ==
    {p \o d : p \in {<<"P","L","S">>, <<"T","1","S">>, <<"T","2","S">>, <<"T","3","S">>},
              d \in Texts({"2", "0", "4"}, 4)}

\* Six digits with a leading 9, and the texts next to them
OrbitLike ==
    LET ds == TextsUpTo({"9", "0"}, 5, 7)
    IN  ds \cup {<<"8">> \o Tail(d) : d \in Texts({"9", "0"}, 6)}
           \cup {<<" ">> \o d \o <<" ">> : d \in Texts({"9", "0"}, 6)}
           \cup {<<"9","0","0","1","9","1">>, <<"9","0","0","1","9","P">>,
                 <<"9","0","0","1","9","1",";">>}

\* Texts that neither grammar knows, and texts with the backspace character
Others ==
    {<<"c","e","r","e","s">>, <<"I","o">>, <<"5","0","1">>, <<"x",";">>,
     <<"1","2",BS>>, <<"2","0","0","1",BS," ">> \o Einstein}

\* The target names of the grammar specification
GrammarNames ==
    ShortNames \cup CometNames \cup ProvisionalComets \cup AsteroidNames
    \cup ProvisionalAsteroids \cup Packed7 \cup Packed5 \cup PackedSurvey
    \cup OrbitLike \cup Others

\* The target names of the query specification
TargetNames ==
    {<<>>, <<"9","P">>, <<"1","P","/">> \o Halley, <<"1","0","P","/">> \o Halley,
     <<"C","/","2","0","1","3"," ","U","S","1","0">>,
     <<"2","0","1","4"," ","M","U","6","9">>, <<"2","0","1","7"," ","U","1">>,
     <<"4","3","3">>, <<"(","2","0","0","1",")"," ">> \o Einstein, Einstein,
     <<"c","e","r","e","s">>, <<"G","3","6","9","3">>, <<"J","9","5","X","0","0","A">>,
     <<"K","0","7","T","A","8","A">>, <<"P","L","S","2","0","4","0">>,
     <<"5","0","1">>, <<"I","o">>, <<"x",";">>, <<"1","2",BS>>,
     <<"9","0","0","1","9","1">>, <<" ","9","0","0","1","9","1"," ">>,
     <<"9","0","0","1","9">>, <<"9","0","0","1","9","1","1">>,
     <<"8","0","0","1","9","1">>, <<"9","0","0","1","9","P">>,
     <<"9","9","9","9","9","9">>, <<"9","0","0","0","0","0">>}

\* An epoch, as a text
Epoch == StrV(<<"2","0","1","6">>)
\* A Python list
ListV(xs) == [ty |-> "list", items |-> xs]

\* The arguments of set_epochrange
EpochRanges == {<<Epoch, Epoch, Epoch>>, <<Epoch, None, Epoch>>}
\* The arguments of set_discreteepochs: a list, or one value that is no list
DiscreteEpochs == {ListV(<<Epoch>>), Epoch}

\* The grammar applied to every target name of the model, computed once and
\* looked up wherever the code calls the method.
AllNames == GrammarNames \cup TargetNames
comet_table    == [t \in AllNames |-> parse_comet(t)] @@ <<>>
asteroid_table == [t \in AllNames |-> parse_asteroid(t)] @@ <<>>
orbit_table    == [t \in AllNames |-> isorbit_record(t)] @@ <<>>

-----------------------------------------------------------------------------
(* The target identifier: isorbit_record, iscomet, isasteroid and the       *)
(* branches of get_ephemerides and get_elements that render COMMAND.        *)

BoolV(b) == [ty |-> "bool", s |-> <<>>, n |-> IF b THEN 1 ELSE 0]

\* Python's truth value of None, a text or an integer
truthy(v) == (v.ty = "str" /\ v.s # <<>>) \/ (v.ty \in {"int", "bool"} /\ v.n # 0)

\* any(iterable) over a tuple of values
any(vs) == \E i \in DOMAIN vs : truthy(vs[i])

\* x is not None
is_not_None(v) == v # None

\* iscomet(): [exc, val, calls].  With the comet hint set the method evaluates
\* the name `true`, which Python does not define: NameError.
iscomet(t, cm) ==
    IF cm = TRUE
    THEN [exc |-> "NameError", val |-> FALSE, calls |-> <<"iscomet">>]
    ELSE LET pc == comet_table[t]
         IN  IF is_not_None(pc.desig)
             THEN [exc |-> "", val |-> TRUE, calls |-> <<"iscomet", "parse_comet">>]
             ELSE [exc |-> "", val |-> is_not_None(pc.prefixnumber),
                   calls |-> <<"iscomet", "parse_comet", "parse_comet">>]

\* isasteroid(): [exc, val, calls]
isasteroid(t, as) ==
    IF as = TRUE
    THEN [exc |-> "", val |-> TRUE, calls |-> <<"isasteroid">>]
    ELSE LET pa == asteroid_table[t]
         IN  IF pa.exc # ""
             THEN [exc |-> pa.exc, val |-> FALSE, calls |-> <<"isasteroid", "parse_asteroid">>]
             ELSE [exc |-> "",
                   val |-> is_not_None(BoolV(any(<<pa.desig, pa.number, pa.name>>))),
                   calls |-> <<"isasteroid", "parse_asteroid">>]

\* `for ident in (...): if ident is not None: break`, then
\* `if ident is None: ident = self.targetname`
RECURSIVE first_ident(_, _)
first_ident(vs, t) ==
    IF Len(vs) = 1 THEN (IF vs[1] = None THEN StrV(t) ELSE vs[1])
    ELSE IF vs[1] # None THEN vs[1] ELSE first_ident(Tail(vs), t)

\* str(ident) for a text or an integer
str_of(v) == IF v.ty = "int" THEN str(v.n) ELSE v.s

HexSeq == <<"0","1","2","3","4","5","6","7","8","9","A","B","C","D","E","F">>

\* The code point of the characters of Chars that urllib.quote escapes.
ord(c) ==
    CASE c = " " -> 32 [] c = "(" -> 40 [] c = ")" -> 41 [] c = ";" -> 59
      [] c = "=" -> 61 [] c = BS -> 8

\* urllib.quote(text): letters, digits and "_.-~/" are kept, every other
\* character becomes %XX.
RECURSIVE quote(_)
quote(s) ==
    IF s = <<>> THEN <<>>
    ELSE (IF Head(s) \in Alpha \cup Digit \cup {"_", ".", "-", "~", "/"}
          THEN <<Head(s)>>
          ELSE <<"%", HexSeq[(ord(Head(s)) \div 16) + 1], HexSeq[(ord(Head(s)) % 16) + 1]>>)
         \o quote(Tail(s))

\* The value of COMMAND, "&COMMAND='" [DES=] ident [%3B] [CAP] "'", kept as the
\* parts the code concatenates.
Command(des, ident, term, cp) == [des |-> des, ident |-> ident, term |-> term, cap |-> cp]
NoCommand == Command(FALSE, <<>>, FALSE, FALSE)

Target(branch, exc, command, cs) ==
    [branch |-> branch, exc |-> exc, command |-> command, calls |-> cs]

\* The comet branch with CAP whatever cap is
comet_branch_always_cap(t, cp, cs) ==
    LET pc    == comet_table[t]
        ident == first_ident(<<pc.desig, pc.prefixnumber, pc.name>>, t)
    IN  Target("comet", "", Command(TRUE, quote(str_of(ident)), TRUE, TRUE),
               cs \o <<"parse_comet">>)

\* The comet branch of both requests
comet_branch(t, cp, cs) ==
    LET pc    == comet_table[t]
        ident == first_ident(<<pc.desig, pc.prefixnumber, pc.name>>, t)
    IN  Target("comet", "", Command(TRUE, quote(str_of(ident)), TRUE, cp = TRUE),
               cs \o <<"parse_comet">>)

\* The asteroid branch of get_ephemerides: urllib.quote(str(ident).encode("utf8"))
ephemerides_asteroid_branch(t, cs) ==
    LET pa    == asteroid_table[t]
        ident == first_ident(<<pa.desig, pa.number, pa.name>>, t)
    IN  IF pa.exc # "" THEN Target("asteroid", pa.exc, NoCommand, cs \o <<"parse_asteroid">>)
        ELSE Target("asteroid", "", Command(FALSE, quote(str_of(ident)), TRUE, FALSE),
                    cs \o <<"parse_asteroid">>)

\* The asteroid branch of get_elements: urllib.quote(ident.encode("utf8")); an
\* integer has no encode method.
elements_asteroid_branch(t, cs) ==
    LET pa    == asteroid_table[t]
        ident == first_ident(<<pa.desig, pa.number, pa.name>>, t)
    IN  IF pa.exc # "" THEN Target("asteroid", pa.exc, NoCommand, cs \o <<"parse_asteroid">>)
        ELSE IF ident.ty = "int"
        THEN Target("asteroid", "AttributeError", NoCommand, cs \o <<"parse_asteroid">>)
        ELSE Target("asteroid", "", Command(FALSE, quote(ident.s), TRUE, FALSE),
                    cs \o <<"parse_asteroid">>)

\* The branches taken when the target is neither exact nor an orbit record
\* nor a comet: `elif self.isasteroid()` and `else`.  c1 are the calls made so
\* far, ia the outcome of isasteroid(), asteroid_branch the branch of the handler.
ephemerides_after_comet(t, ia, c1) ==
    IF ia.exc # "" THEN Target("", ia.exc, NoCommand, c1 \o ia.calls)
    ELSE IF ia.val THEN ephemerides_asteroid_branch(t, c1 \o ia.calls)
    ELSE Target("opaque", "", Command(FALSE, quote(t), TRUE, FALSE), c1 \o ia.calls)

elements_after_comet(t, ia, c1) ==
    IF ia.exc # "" THEN Target("", ia.exc, NoCommand, c1 \o ia.calls)
    ELSE IF ia.val THEN elements_asteroid_branch(t, c1 \o ia.calls)
    ELSE Target("opaque", "", Command(FALSE, quote(t), TRUE, FALSE), c1 \o ia.calls)

\* get_ephemerides: `elif self.iscomet() and not self.asteroid` and what
\* follows; ic is the outcome of iscomet().
ephemerides_after_orbit(t, cp, as, ic) ==
    IF ic.exc # "" THEN Target("", ic.exc, NoCommand, <<"isorbit_record">> \o ic.calls)
    ELSE IF ic.val /\ ~as THEN comet_branch(t, cp, <<"isorbit_record">> \o ic.calls)
    ELSE ephemerides_after_comet(t, isasteroid(t, as), <<"isorbit_record">> \o ic.calls)

\* get_elements: `elif self.iscomet()` and what follows
elements_after_orbit(t, cp, as, ic) ==
    IF ic.exc # "" THEN Target("", ic.exc, NoCommand, <<"isorbit_record">> \o ic.calls)
    ELSE IF ic.val THEN comet_branch(t, cp, <<"isorbit_record">> \o ic.calls)
    ELSE elements_after_comet(t, isasteroid(t, as), <<"isorbit_record">> \o ic.calls)

\* get_ephemerides with the slip of testing for an orbit record before
\* not_smallbody
ephemerides_target_orbit_first(t, ns, cp, cm, as) ==
    IF orbit_table[t]
    THEN Target("orbit_record", "", Command(FALSE, quote(t), TRUE, FALSE), <<"isorbit_record">>)
    ELSE IF ns THEN Target("opaque_exact", "", Command(FALSE, quote(t), FALSE, FALSE), <<>>)
    ELSE ephemerides_after_orbit(t, cp, as, iscomet(t, cm))

\* get_ephemerides: the if/elif chain on the target
ephemerides_target(t, ns, cp, cm, as) ==
    IF ns THEN Target("opaque_exact", "", Command(FALSE, quote(t), FALSE, FALSE), <<>>)
    ELSE IF orbit_table[t]
    THEN Target("orbit_record", "", Command(FALSE, quote(t), TRUE, FALSE), <<"isorbit_record">>)
    ELSE ephemerides_after_orbit(t, cp, as, iscomet(t, cm))

\* get_elements: the if/elif chain on the target
elements_target(t, ns, cp, cm, as) ==
    IF ns THEN Target("opaque_exact", "", Command(FALSE, quote(t), FALSE, FALSE), <<>>)
    ELSE IF orbit_table[t]
    THEN Target("orbit_record", "", Command(FALSE, quote(t), TRUE, FALSE), <<"isorbit_record">>)
    ELSE elements_after_orbit(t, cp, as, iscomet(t, cm))

-----------------------------------------------------------------------------
(* The response of HORIZONS: numbers, and the scan of the lines.            *)

\* Python values of the table: not-a-number, a float read from a text, and
\* a local name that no assignment has bound yet.
NaN     == [ty |-> "nan", s |-> <<>>, n |-> 0]
Unbound == [ty |-> "unbound", s |-> <<>>, n |-> 0]

\* The texts float() accepts, whitespace stripped and letters in either case:
\* [+-]?(([0-9]+\.?[0-9]*|\.[0-9]+)([eE][+-]?[0-9]+)?|nan|inf)
float_pat ==
    Cat(<<Bol, Rep(Set({"+", "-"}), 0, 1),
          Alt(<<Cat(<<Alt(<<Cat(<<Rep(Set(Digit), 1, -1), Rep(Lit("."), 0, 1),
                                  Rep(Set(Digit), 0, -1)>>),
                            Cat(<<Lit("."), Rep(Set(Digit), 1, -1)>>)>>),
                      Rep(Cat(<<Set({"e", "E"}), Rep(Set({"+", "-"}), 0, 1),
                                Rep(Set(Digit), 1, -1)>>), 0, 1)>>),
                Cat(<<Set({"n", "N"}), Set({"a", "A"}), Set({"n", "N"})>>),
                Cat(<<Set({"i", "I"}), Set({"n", "N"}), Set({"f", "F"})>>)>>),
          Eol>>)

\* Does float(text) return (TRUE) or raise ValueError (FALSE)?
isfloat(text) == match(float_pat, 1, strip(text)).ok

\* The texts float() reads as not-a-number
nan_pat ==
    Cat(<<Bol, Rep(Set({"+", "-"}), 0, 1),
          Set({"n", "N"}), Set({"a", "A"}), Set({"n", "N"}), Eol>>)

\* float(text), np.float64(text) for a text float() accepts; how is "float",
\* or the arithmetic the code applies to the number ("float/3600", ...).
float(text, how) ==
    IF match(nan_pat, 1, strip(text)).ok THEN NaN
    ELSE [ty |-> how, s |-> strip(text), n |-> 0]

\* The texts the scan looks for in a line
Date_UT_marker   == <<"D","a","t","e","_","_","(","U","T",")","_","_","H","R",":","M","N">>
JDTDB_marker     == <<"J","D","T","D","B",",">>
EOE_marker       == <<"$","$","E","O","E",NL>>
SOE_marker       == <<"$","$","S","O","E",NL>>
Target_marker    == <<"T","a","r","g","e","t"," ","b","o","d","y"," ","n","a","m","e">>
rotation_marker  == <<"r","o","t","a","t","i","o","n","a","l"," ","p","e","r","i","o","d"," ","i","n"," ","h","o","u","r","s",")">>
major_marker     == <<"M","u","l","t","i","p","l","e"," ","m","a","j","o","r","-","b","o","d","i","e","s"," ","m","a","t","c","h"," ","s","t","r","i","n","g">>
small_marker     == <<"M","a","t","c","h","i","n","g"," ","s","m","a","l","l","-","b","o","d","i","e","s">>
nomatch_marker   == <<"N","o"," ","m","a","t","c","h","e","s"," ","f","o","u","n","d">>

\* The header marker of the request: get_ephemerides looks for the calendar
\* date column, get_elements for 'JDTDB,'.
header_marker(op) == IF op = "get_ephemerides" THEN Date_UT_marker ELSE JDTDB_marker

\* The locals of the scan before the first line; exc is the exception that
\* ended the scan, "" for none.
scan_start ==
    [exc |-> "", headerline |-> <<>>, datablock |-> <<>>, in_datablock |-> FALSE,
     targetname |-> Unbound, H |-> NaN, G |-> NaN]

\* `if <header marker> in line: headerline = line.split(',')`
scan_header(op, line, st) ==
    IF contains(line, header_marker(op))
    THEN [st EXCEPT !.headerline = split(line, ",")] ELSE st

\* The three tests on the sentinels, in the order of the code: $$EOE closes
\* the block, a line inside the block is collected, $$SOE opens the block.
scan_EOE(line, st) ==
    IF contains(line, EOE_marker) THEN [st EXCEPT !.in_datablock = FALSE] ELSE st

scan_collect(line, st) ==
    IF st.in_datablock THEN [st EXCEPT !.datablock = Append(@, line)] ELSE st

scan_SOE(line, st) ==
    IF contains(line, SOE_marker) THEN [st EXCEPT !.in_datablock = TRUE] ELSE st

\* `if "Target body name" in line: targetname = line[18:50].strip()`
scan_target(line, st) ==
    IF contains(line, Target_marker)
    THEN [st EXCEPT !.targetname = StrV(strip(Slice(line, 18, 50)))] ELSE st

\* H and G from HGline = src[idx+2].split('='): each is kept when float()
\* raises ValueError; HGline[2] and HGline[1] must exist.
parse_HG(HGline, st) ==
    IF Len(HGline) < 3 THEN [st EXCEPT !.exc = "IndexError"]
    ELSE IF contains(HGline[3], <<"B","-","V">>) /\ contains(HGline[2], <<"G">>)
    THEN [st EXCEPT
            !.H = IF isfloat(rstrip(HGline[2], {"G"}))
                  THEN float(rstrip(HGline[2], {"G"}), "float") ELSE @,
            !.G = IF isfloat(rstrip(HGline[3], {"B", "-", "V"}))
                  THEN float(rstrip(HGline[3], {"B", "-", "V"}), "float") ELSE @]
    ELSE st

\* `if "rotational period in hours)" in src[idx]`: src and idx are 1-based
\* here, so src[idx+2] of the code is src[idx + 2] of the model.
scan_HG(src, idx, st) ==
    IF ~contains(src[idx], rotation_marker) THEN st
    ELSE IF idx + 2 > Len(src) THEN [st EXCEPT !.exc = "IndexError"]
    ELSE parse_HG(split(src[idx + 2], "="), st)

\* The two tests for the target errors.  `or` and `and` evaluate left to
\* right: src[idx+1] is read only on a line with 'Matching small-bodies'.
scan_errors(src, idx, st) ==
    IF st.exc # "" THEN st
    ELSE IF contains(src[idx], major_marker)
    THEN [st EXCEPT !.exc = "ValueError: Ambiguous target name"]
    ELSE IF ~contains(src[idx], small_marker) THEN st
    ELSE IF idx + 1 > Len(src) THEN [st EXCEPT !.exc = "IndexError"]
    ELSE IF ~contains(src[idx + 1], nomatch_marker)
    THEN [st EXCEPT !.exc = "ValueError: Ambiguous target name"]
    ELSE [st EXCEPT !.exc = "ValueError: Unknown target"]

\* One turn with the line collected before the test for '$$EOE'
scan_line_collect_first(op, src, idx, st) ==
    scan_errors(src, idx,
      scan_HG(src, idx,
        scan_target(src[idx],
          scan_SOE(src[idx],
            scan_EOE(src[idx],
              scan_collect(src[idx],
                scan_header(op, src[idx], st)))))))

\* One turn of `for idx, line in enumerate(src)`
scan_line(op, src, idx, st) ==
    scan_errors(src, idx,
      scan_HG(src, idx,
        scan_target(src[idx],
          scan_SOE(src[idx],
            scan_collect(src[idx],
              scan_EOE(src[idx],
                scan_header(op, src[idx], st)))))))

\* The loop over the lines from line idx on; an exception ends it.
RECURSIVE scan_from(_, _, _, _)
scan_from(op, src, idx, st) ==
    IF idx > Len(src) \/ st.exc # "" THEN st
    ELSE scan_from(op, src, idx + 1, scan_line(op, src, idx, st))

\* The scan of a response
scan(op, src) == scan_from(op, src, 1, scan_start)

-----------------------------------------------------------------------------
(* The response of HORIZONS: the rows of the data block.                    *)

\* A rule is one `if` on a header item: the text it looks for in the item,
\* how it reads the cell of the row under that item, the arithmetic on the
\* number, the name and the type of the field it appends.  unless holds the
\* texts of the `if`s before it in an if/elif chain.  How a cell is read:
\*   "text"       line[idx].strip()
\*   "strict"     np.float64(line[idx]), outside any try
\*   "single"     as "strict", when the item stripped is one character long
\*   "nan"        np.float64(line[idx]) in a try, np.nan on ValueError
\*   "skip"       np.float64(line[idx]) in a try that also holds the appends
\*                of the name and the type, `pass` on ValueError
\*   "JDUT"       as "strict", then the labels of the next two cells
\*   "r"          as "nan", when the next header item holds 'rdot'
\*   "flag"       the label of the cell
\*   "flag_alpha" the label of the cell's first word, then its second word
\*                as "nan"
Rule(marker, how, scale, field, type, unless) ==
    [marker |-> marker, how |-> how, scale |-> scale, field |-> field,
     type |-> type, unless |-> unless]

\* The `if`s of get_ephemerides on a header item, in the order of the code
ephemerides_rules == <<
    Rule(<<"D","a","t","e","_","_","(","U","T",")","_","_","H","R",":","M","N">>, "text", "float", "datetime", "object", {}),
    Rule(<<"D","a","t","e","_","_","_","_","_","_","_","_","_","J","D","U","T">>, "JDUT", "float", "datetime_jd", "float64", {}),
    Rule(<<"R",".","A",".","_","(","I","C","R","F","/","J","2","0","0","0",".","0",")">>, "strict", "float", "RA", "float64", {}),
    Rule(<<"D","E","C","_","(","I","C","R","F","/","J","2","0","0","0",".","0",")">>, "strict", "float", "DEC", "float64", {}),
    Rule(<<"d","R","A","*","c","o","s","D">>, "nan", "float/3600", "RA_rate", "float64", {}),
    Rule(<<"d","(","D","E","C",")","/","d","t">>, "nan", "float/3600", "DEC_rate", "float64", {}),
    Rule(<<"A","z","i","_","(","a","-","a","p","p",")">>, "skip", "float", "AZ", "float64", {}),
    Rule(<<"E","l","e","v","_","(","a","-","a","p","p",")">>, "skip", "float", "EL", "float64", {}),
    Rule(<<"a","-","m","a","s","s">>, "nan", "float", "airmass", "float64", {}),
    Rule(<<"m","a","g","_","e","x">>, "nan", "float", "magextinct", "float64", {}),
    Rule(<<"A","P","m","a","g">>, "nan", "float", "V", "float64", {}),
    Rule(<<"I","l","l","u","%">>, "nan", "float", "illumination", "float64", {}),
    Rule(<<"h","E","c","l","-","L","o","n">>, "nan", "float", "EclLon", "float64", {}),
    Rule(<<"h","E","c","l","-","L","a","t">>, "nan", "float", "EclLat", "float64", {}),
    Rule(<<"O","b","s","E","c","L","o","n">>, "nan", "float", "ObsEclLon", "float64", {}),
    Rule(<<"O","b","s","E","c","L","a","t">>, "nan", "float", "ObsEclLat", "float64", {}),
    Rule(<<" "," ","r">>, "r", "float", "r", "float64", {}),
    Rule(<<"r","d","o","t">>, "nan", "float", "r_rate", "float64", {}),
    Rule(<<"d","e","l","t","a">>, "nan", "float", "delta", "float64", {}),
    Rule(<<"d","e","l","d","o","t">>, "nan", "float", "delta_rate", "float64", {}),
    Rule(<<"1","-","w","a","y","_","L","T">>, "nan", "float*60", "lighttime", "float64", {}),
    Rule(<<"S","-","O","-","T">>, "nan", "float", "elong", "float64", {}),
    Rule(<<"/","r"," "," "," "," ","S","-","T","-","O">>, "flag_alpha", "float", "elongFlag", "object", {}),
    Rule(<<"S","-","T","-","O">>, "nan", "float", "alpha", "float64", {<<"/","r"," "," "," "," ","S","-","T","-","O">>}),
    Rule(<<"/","r">>, "flag", "float", "elongFlag", "object", {<<"/","r"," "," "," "," ","S","-","T","-","O">>, <<"S","-","T","-","O">>}),
    Rule(<<"P","s","A","n","g">>, "nan", "float", "sunTargetPA", "float64", {}),
    Rule(<<"P","s","A","M","V">>, "nan", "float", "velocityPA", "float64", {}),
    Rule(<<"G","l","x","L","o","n">>, "nan", "float", "GlxLon", "float64", {}),
    Rule(<<"G","l","x","L","a","t">>, "nan", "float", "GlxLat", "float64", {}),
    Rule(<<"R","A","_","3","s","i","g","m","a">>, "nan", "float", "RA_3sigma", "float64", {}),
    Rule(<<"D","E","C","_","3","s","i","g","m","a">>, "nan", "float", "DEC_3sigma", "float64", {}),
    Rule(<<"T","-","m","a","g">>, "nan", "float", "V", "float64", {}) >>

\* The `if`s of get_elements on a header item, in the order of the code
elements_rules == <<
    Rule(<<"J","D","T","D","B">>, "strict", "float", "datetime_jd", "float64", {}),
    Rule(<<"E","C">>, "strict", "float", "e", "float64", {}),
    Rule(<<"Q","R">>, "strict", "float", "p", "float64", {}),
    Rule(<<"A">>, "single", "float", "a", "float64", {}),
    Rule(<<"I","N">>, "strict", "float", "incl", "float64", {}),
    Rule(<<"O","M">>, "strict", "float", "node", "float64", {}),
    Rule(<<"W">>, "strict", "float", "argper", "float64", {}),
    Rule(<<"T","p">>, "strict", "float", "Tp", "float64", {}),
    Rule(<<"M","A">>, "strict", "float", "meananomaly", "float64", {}),
    Rule(<<"T","A">>, "strict", "float", "trueanomaly", "float64", {}),
    Rule(<<"P","R">>, "strict", "float/365.256", "period", "float64", {}),
    Rule(<<"A","D">>, "strict", "float", "Q", "float64", {}) >>

\* The dictionaries of the labels
solar_presence ==
    (<<"*">> :> <<"d","a","y","l","i","g","h","t">>) @@ (<<"C">> :> <<"c","i","v","i","l"," ","t","w","i","l","i","g","h","t">>) @@ (<<"N">> :> <<"n","a","u","t","i","c","a","l"," ","t","w","i","l","i","g","h","t">>)
    @@ (<<"A">> :> <<"a","s","t","r","o","n","o","m","i","c","a","l"," ","t","w","i","l","i","g","h","t">>) @@ (<<" ">> :> <<"d","a","r","k">>) @@ (<<"t">> :> <<"t","r","a","n","s","i","t","i","n","g">>)
lunar_presence == (<<"m">> :> <<"m","o","o","n","l","i","g","h","t">>) @@ (<<" ">> :> <<"d","a","r","k">>)
elongFlag_space == (<<"/","L">> :> <<"l","e","a","d","i","n","g">>) @@ (<<"/","T">> :> <<"t","r","a","i","l","i","n","g">>)
elongFlag_ground == elongFlag_space @@ (<<"/","?">> :> <<"n","o","t"," ","d","e","f","i","n","e","d">>)
not_available == <<"n",".","a",".">>

\* this_eph, fieldnames and datatypes of a row, and the exception that ended
\* the row ("" for none)
row_start == [exc |-> "", vals |-> <<>>, names |-> <<>>, types |-> <<>>]

push(acc, v, name, type) ==
    [acc EXCEPT !.vals = Append(@, v), !.names = Append(@, name),
                !.types = Append(@, type)]

fail(acc, exc) == [acc EXCEPT !.exc = exc]

\* Does the `if` of the rule hold for the header item?
applies(rule, item) ==
    /\ contains(item, rule.marker)
    /\ \A u \in rule.unless : ~contains(item, u)
    /\ rule.how = "single" => Len(strip(item)) = 1

\* The header lines of the responses of the model, as the items between the
\* commas.

\* ','.join(cells)
RECURSIVE join(_)
join(cells) ==
    IF Len(cells) = 0 THEN <<>>
    ELSE IF Len(cells) = 1 THEN cells[1]
    ELSE cells[1] \o <<",">> \o join(Tail(cells))

\* A line of the response from its cells
Line(cells) == join(cells) \o <<NL>>

\* The header of the table of an OBSERVER request for the quantities asked
\* for, seen from the ground
ephemerides_items ==
    <<<<" ","D","a","t","e","_","_","(","U","T",")","_","_","H","R",":","M","N">>,
      <<" ","D","a","t","e","_","_","_","_","_","_","_","_","_","J","D","U","T">>,
      <<>>,
      <<" ">>,
      <<"R",".","A",".","_","(","I","C","R","F","/","J","2","0","0","0",".","0",")">>,
      <<" ","D","E","C","_","(","I","C","R","F","/","J","2","0","0","0",".","0",")">>,
      <<" ","d","R","A","*","c","o","s","D">>,
      <<"d","(","D","E","C",")","/","d","t">>,
      <<"A","z","i","_","(","a","-","a","p","p",")">>,
      <<" ","E","l","e","v","_","(","a","-","a","p","p",")">>,
      <<" ","a","-","m","a","s","s">>,
      <<"m","a","g","_","e","x">>,
      <<" "," ","A","P","m","a","g">>,
      <<" ","S","-","b","r","t">>,
      <<"I","l","l","u","%">>,
      <<"h","E","c","l","-","L","o","n">>,
      <<"h","E","c","l","-","L","a","t">>,
      <<" "," "," ","r">>,
      <<" ","r","d","o","t">>,
      <<" "," ","d","e","l","t","a">>,
      <<" ","d","e","l","d","o","t">>,
      <<" ","1","-","w","a","y","_","L","T">>,
      <<" ","S","-","O","-","T">>,
      <<"/","r">>,
      <<" ","S","-","T","-","O">>,
      <<" ","P","s","A","n","g">>,
      <<" ","P","s","A","M","V">>,
      <<"O","b","s","E","c","L","o","n">>,
      <<"O","b","s","E","c","L","a","t">>,
      <<" ","G","l","x","L","o","n">>,
      <<" ","G","l","x","L","a","t">>,
      <<" ","R","A","_","3","s","i","g","m","a">>,
      <<"D","E","C","_","3","s","i","g","m","a">>,
      <<>>>>

\* The same seen from a space telescope: the flag and the phase angle share
\* the column '/r    S-T-O'.  merge joins cells i and i + 1.
merge(cells, i, gap) ==
    SubSeq(cells, 1, i - 1) \o <<cells[i] \o gap \o cells[i + 1]>>
    \o SubSeq(cells, i + 2, Len(cells))

space_items == merge(ephemerides_items, 24, <<" "," "," ">>)
\* The header of the table of an ELEMENTS request
elements_items ==
    <<<<"J","D","T","D","B">>,
      <<" ","C","a","l","e","n","d","a","r"," ","D","a","t","e"," ","(","T","D","B",")">>,
      <<" ","E","C">>,
      <<" ","Q","R">>,
      <<" ","I","N">>,
      <<" ","O","M">>,
      <<" ","W">>,
      <<" ","T","p">>,
      <<" ","N">>,
      <<" ","M","A">>,
      <<" ","T","A">>,
      <<" ","A">>,
      <<" ","A","D">>,
      <<" ","P","R">>,
      <<>>>>

\* A second header line, without the items after the first two (three)
short_ephemerides_items == SubSeq(ephemerides_items, 1, 2) \o <<<<>>>>
short_elements_items    == SubSeq(elements_items, 1, 3) \o <<<<>>>>

\* The header items of the responses of the model
HeaderLinesOfModel ==
    {Line(ephemerides_items), Line(space_items), Line(short_ephemerides_items),
     Line(elements_items), Line(short_elements_items)}
HeaderItems ==
    UNION {{split(h, ",")[i] : i \in 1..Len(split(h, ","))} : h \in HeaderLinesOfModel}

\* The rules whose `if` holds for a header item, from rule k on, in the order
\* of the code
RECURSIVE applicable(_, _, _)
applicable(rs, k, item) ==
    IF k > Len(rs) THEN <<>>
    ELSE (IF applies(rs[k], item) THEN <<rs[k]>> ELSE <<>>) \o applicable(rs, k + 1, item)

\* The same for every header item of the model, computed once and looked up
\* by the loop over the header items.
ephemerides_applicable ==
    [item \in HeaderItems |-> applicable(ephemerides_rules, 1, item)] @@ <<>>
elements_applicable ==
    [item \in HeaderItems |-> applicable(elements_rules, 1, item)] @@ <<>>

applicable_rules(op, item) ==
    IF op = "get_ephemerides" THEN ephemerides_applicable[item] ELSE elements_applicable[item]

\* np.float64(text) in a try with np.nan on ValueError
number_or_nan(text, scale) == IF isfloat(text) THEN float(text, scale) ELSE NaN

\* d[key] in a try with 'n.a.' on KeyError
label_or_na(d, key) == IF key \in DOMAIN d THEN StrV(d[key]) ELSE StrV(not_available)

\* The two labels after the Julian date: line[idx+1] and line[idx+2] must
\* exist, a key the dictionary does not hold gives 'n.a.'.
presence(line, i, acc) ==
    IF acc.exc # "" THEN acc
    ELSE IF i + 2 > Len(line) THEN fail(acc, "IndexError")
    ELSE push(push(acc, label_or_na(solar_presence, line[i + 1]), "solar_presence", "object"),
              label_or_na(lunar_presence, line[i + 2]), "lunar_presence", "object")

\* np.float64(text) outside any try
strict(rule, text, acc) ==
    IF isfloat(text) THEN push(acc, float(text, rule.scale), rule.field, rule.type)
    ELSE fail(acc, "ValueError: could not convert string to float")

\* d[key] outside any try
flag(d, key, acc) ==
    IF key \in DOMAIN d THEN push(acc, StrV(d[key]), "elongFlag", "object")
    ELSE fail(acc, "KeyError")

\* The column '/r    S-T-O' of a space telescope: words is line[idx].split()
flag_alpha(words, acc) ==
    IF Len(words) = 0 THEN fail(acc, "IndexError")
    ELSE IF words[1] \notin DOMAIN elongFlag_space THEN fail(acc, "KeyError")
    ELSE IF Len(words) = 1
    THEN fail(push(acc, StrV(elongFlag_space[words[1]]), "elongFlag", "object"), "IndexError")
    ELSE push(push(acc, StrV(elongFlag_space[words[1]]), "elongFlag", "object"),
              number_or_nan(words[2], "float"), "alpha", "float64")

\* The body of the `if` of a rule on the cell text
apply_cell(rule, line, i, acc) ==
    CASE rule.how = "text" -> push(acc, StrV(strip(line[i])), rule.field, rule.type)
      [] rule.how \in {"strict", "single"} -> strict(rule, line[i], acc)
      [] rule.how \in {"nan", "r"} ->
            push(acc, number_or_nan(line[i], rule.scale), rule.field, rule.type)
      [] rule.how = "skip" ->
            IF isfloat(line[i]) THEN push(acc, float(line[i], rule.scale), rule.field, rule.type)
            ELSE acc
      [] rule.how = "JDUT" -> presence(line, i, strict(rule, line[i], acc))
      [] rule.how = "flag" -> flag(elongFlag_ground, line[i], acc)
      [] rule.how = "flag_alpha" -> flag_alpha(split_ws(line[i]), acc)

\* The body of one `if` of the loop over the header items that holds for
\* item i; i counts the items from 1.  The rule for r reads headerline[idx+1]
\* before the cell.
apply_rule(rule, headerline, line, i, acc) ==
    IF acc.exc # "" THEN acc
    ELSE IF rule.how = "r" /\ i + 1 > Len(headerline) THEN fail(acc, "IndexError")
    ELSE IF rule.how = "r" /\ ~contains(headerline[i + 1], <<"r","d","o","t">>) THEN acc
    ELSE IF i > Len(line) THEN fail(acc, "IndexError")
    ELSE apply_cell(rule, line, i, acc)

\* The `if`s that hold for header item i, from the k-th of them on; an
\* exception ends them.
RECURSIVE apply_rules(_, _, _, _, _, _)
apply_rules(rs, k, headerline, line, i, acc) ==
    IF k > Len(rs) \/ acc.exc # "" THEN acc
    ELSE apply_rules(rs, k + 1, headerline, line, i,
                     apply_rule(rs[k], headerline, line, i, acc))

\* `for idx, item in enumerate(headerline)`, from item i on
RECURSIVE decode_items(_, _, _, _, _)
decode_items(op, headerline, line, i, acc) ==
    IF i > Len(headerline) \/ acc.exc # "" THEN acc
    ELSE decode_items(op, headerline, line, i + 1,
                      apply_rules(applicable_rules(op, headerline[i]), 1,
                                  headerline, line, i, acc))

\* The three fields with the values of G and H in each other's place
append_target_G_for_H(st, acc) ==
    IF acc.exc # "" THEN acc
    ELSE IF st.targetname = Unbound THEN fail(acc, "UnboundLocalError")
    ELSE push(push(push(acc, st.targetname, "targetname", "object"),
                   st.G, "H", "float64"), st.H, "G", "float64")

\* The three fields every row ends with; reading a targetname that no line
\* has bound raises UnboundLocalError.
append_target(st, acc) ==
    IF acc.exc # "" THEN acc
    ELSE IF st.targetname = Unbound THEN fail(acc, "UnboundLocalError")
    ELSE push(push(push(acc, st.targetname, "targetname", "object"),
                   st.H, "H", "float64"), st.G, "G", "float64")

\* The row of one line of the data block, line already split at the commas
decode_row(op, st, line) ==
    append_target(st, decode_items(op, st.headerline, line, 1, row_start))

-----------------------------------------------------------------------------
(* The response of HORIZONS: the table.                                     *)

\* The quantities get_ephemerides asks for; a line of the data block with
\* fewer cells than quantities is skipped.
quantities == <<"1",",","3",",","4",",","8",",","9",",","1","0",",","1","8",",","1","9",",","2","0",",","2","1",",","2","3",",","2","4",",","2","7",",","3","1",",","3","3",",","3","6">>

\* `if len(line) < len(quantities.split(',')): continue`; get_elements has no
\* such test.
skipped(op, line) == op = "get_ephemerides" /\ Len(line) < Len(split(quantities, ","))

\* The list of rows, with fieldnames and datatypes as the last row left them
block_start == [exc |-> "", rows |-> <<>>, names |-> <<>>, types |-> <<>>]

\* A decoded row joins the list; its exception ends the loop.
add_row(tbl, acc) ==
    IF acc.exc # "" THEN [tbl EXCEPT !.exc = acc.exc]
    ELSE [tbl EXCEPT !.rows = Append(@, acc.vals), !.names = acc.names,
                     !.types = acc.types]

\* `for line in datablock`, from line k on
RECURSIVE decode_block(_, _, _, _)
decode_block(op, st, k, tbl) ==
    IF k > Len(st.datablock) \/ tbl.exc # "" THEN tbl
    ELSE IF skipped(op, split(st.datablock[k], ","))
    THEN decode_block(op, st, k + 1, tbl)
    ELSE decode_block(op, st, k + 1,
                      add_row(tbl, decode_row(op, st, split(st.datablock[k], ","))))

\* np.array on one value: a text under a float64 field is read as a number.
converts(type, v) == ~(type = "float64" /\ v.ty = "str" /\ ~isfloat(v.s))
convert(type, v) ==
    IF type = "float64" /\ v.ty = "str" THEN float(v.s, "float") ELSE v

\* np.array(rows, dtype=...) raises ValueError for a field name that occurs
\* twice, a row whose length is not the number of fields, and a text under a
\* float64 field that is no number.
array_ok(tbl) ==
    /\ \A i, j \in 1..Len(tbl.names) : tbl.names[i] = tbl.names[j] => i = j
    /\ \A r \in 1..Len(tbl.rows) :
          /\ Len(tbl.rows[r]) = Len(tbl.names)
          /\ \A c \in 1..Len(tbl.names) : converts(tbl.types[c], tbl.rows[r][c])

array(tbl) ==
    [names |-> tbl.names, types |-> tbl.types,
     rows  |-> [r \in 1..Len(tbl.rows) |->
                  [c \in 1..Len(tbl.names) |-> convert(tbl.types[c], tbl.rows[r][c])]]]

\* What the lines of a response do to the call: exc is the exception raised
\* ("" for none), stored says whether self.data is assigned, table is the
\* value assigned, val the value returned.
Outcome(exc, stored, table, val) ==
    [exc |-> exc, stored |-> stored, table |-> table, val |-> val]

\* From `if len(ephemerides) == 0: return 0` to `return len(self)`
build(tbl) ==
    IF tbl.exc # "" THEN Outcome(tbl.exc, FALSE, None, None)
    ELSE IF Len(tbl.rows) = 0 THEN Outcome("", FALSE, None, IntV(0))
    ELSE IF Len(tbl.rows[1]) # Len(tbl.names) THEN Outcome("AssertionError", FALSE, None, None)
    ELSE IF ~array_ok(tbl) THEN Outcome("ValueError: np.array", FALSE, None, None)
    ELSE Outcome("", TRUE, array(tbl), IntV(Len(tbl.rows)))

\* The rows of a scan that no exception ended
after_scan(op, st) ==
    IF st.exc # "" THEN Outcome(st.exc, FALSE, None, None)
    ELSE build(decode_block(op, st, 1, block_start))

\* The call from the lines of the response to its return
parse_response(op, src) == after_scan(op, scan(op, src))

-----------------------------------------------------------------------------
(* The responses of the model: the lines `urlopen(url).readlines()` gives.  *)

\* The cells of a row under the header of an OBSERVER request
ephemerides_cells ==
    <<<<" ","2","0","1","6","-","F","e","b","-","2","6"," ","0","0",":","0","0">>,
      <<" ","2","4","5","7","4","4","4",".","5">>,
      <<"*">>,
      <<"m">>,
      <<" ","1","7","0",".","5">>,
      <<" ","2","2",".","5">>,
      <<" ","-","3","0",".","6">>,
      <<" ","1","8",".","0">>,
      <<" ","2","5","0",".","5">>,
      <<" ","4","0",".","5">>,
      <<" ","1",".","5">>,
      <<" ","0",".","2">>,
      <<" ","6",".","9">>,
      <<" ","6",".","5">>,
      <<" ","9","9",".","5">>,
      <<" ","1","6","0",".","5">>,
      <<" ","1","6",".","5">>,
      <<" ","2",".","5">>,
      <<" ","1",".","5">>,
      <<" ","1",".","6">>,
      <<" ","-","0",".","5">>,
      <<" ","1","3",".","5">>,
      <<" ","1","6","0",".","5">>,
      <<"/","T">>,
      <<" ","7",".","5">>,
      <<" ","1","1","0",".","5">>,
      <<" ","2","9","0",".","5">>,
      <<" ","1","6","0",".","6">>,
      <<" ","1","6",".","6">>,
      <<" ","2","4","0",".","5">>,
      <<" ","7","0",".","5">>,
      <<" ","0",".","1">>,
      <<" ","0",".","2">>,
      <<>>>>

\* The cells of the row seen from a space telescope
space_cells == merge(ephemerides_cells, 24, <<>>)

\* The cells of a row under the header of an ELEMENTS request
elements_cells ==
    <<<<"2","4","5","7","4","4","4",".","5">>,
      <<" ","A",".","D","."," ","2","0","1","6","-","F","e","b","-","2","6"," ","0","0",":","0","0",":","0","0",".","0">>,
      <<" ","0",".","0","7">>,
      <<" ","2",".","5">>,
      <<" ","1","0",".","5">>,
      <<" ","8","0",".","5">>,
      <<" ","7","2",".","5">>,
      <<" ","2","4","5","6","5","5","2",".","5">>,
      <<" ","0",".","2">>,
      <<" ","1","9","0",".","5">>,
      <<" ","1","8","9",".","5">>,
      <<" ","2",".","7">>,
      <<" ","2",".","9">>,
      <<" ","1","6","8","0",".","5">>,
      <<>>>>

\* Rows that differ from the row above in one cell: <<column, text>>
ephemerides_changes ==
    {<<2, <<"n",".","a",".">>>>,
     <<3, <<"x">>>>,
     <<4, <<"x">>>>,
     <<5, <<"n",".","a",".">>>>,
     <<6, <<"n",".","a",".">>>>,
     <<7, <<"n",".","a",".">>>>,
     <<9, <<"n",".","a",".">>>>,
     <<10, <<"n",".","a",".">>>>,
     <<11, <<"n",".","a",".">>>>,
     <<24, <<"/","?">>>>,
     <<24, <<"/","X">>>>,
     <<25, <<"n",".","a",".">>>>}

space_changes ==
    {<<24, <<"/","X"," ","7",".","5">>>>, <<24, <<"/","T">>>>, <<24, <<"/","T"," ","n",".","a",".">>>>, <<24, <<" ">>>>}

elements_changes == {<<3, <<"n",".","a",".">>>>, <<14, <<"n",".","a",".">>>>}

\* Rows cut short: the number of cells left
ephemerides_cuts == {0, 3, 20}
elements_cuts == {0, 3}

\* The lines a row can be other than the row itself: the row with one cell
\* changed, the row cut short (0 cells: an empty line)
RowVariants(cells, changes, cuts) ==
    {Line([cells EXCEPT ![c[1]] = c[2]]) : c \in changes}
    \cup {Line(SubSeq(cells, 1, k)) : k \in cuts}

\* The data blocks of n lines of which line k is a variant
BlocksAt(cells, variants, n, k) ==
    {[i \in 1..n |-> IF i = k THEN v ELSE Line(cells)] : v \in variants}

\* The data blocks of at most MaxRows lines of which at most one is a variant
Blocks(cells, variants) ==
    {[i \in 1..n |-> Line(cells)] : n \in 0..MaxRows}
    \cup UNION {UNION {BlocksAt(cells, variants, n, k) : k \in 1..n} : n \in 1..MaxRows}

\* The lines around the table
target_line   == <<"T","a","r","g","e","t"," ","b","o","d","y"," ","n","a","m","e",":"," ","1"," ","C","e","r","e","s"," "," "," "," "," "," "," "," "," "," "," "," "," "," "," "," "," "," "," "," "," "," "," "," "," ","{","s","o","u","r","c","e",":"," ","J","P","L","#","3","3","}",NL>>
physical_line == <<" ","A","s","t","e","r","o","i","d"," ","p","h","y","s","i","c","a","l"," ","p","a","r","a","m","e","t","e","r","s"," ","(","k","m",","," ","s","e","c","o","n","d","s",","," ","r","o","t","a","t","i","o","n","a","l"," ","p","e","r","i","o","d"," ","i","n"," ","h","o","u","r","s",")",":",NL>>
GM_line       == <<" "," "," "," ","G","M","="," ","6","2",".","6","2","8","4"," "," ","R","A","D","="," ","4","6","9",".","7"," "," ","R","O","T","P","E","R","="," ","9",".","0","7","4","1","7",NL>>
HG_line       == <<" "," "," "," ","H","="," ","3",".","3","4"," "," ","G","="," ",".","1","2","0"," "," ","B","-","V","="," ",".","7","1","3",NL>>
SOE_line      == <<"$","$","S","O","E",NL>>
EOE_line      == <<"$","$","E","O","E",NL>>
major_line    == <<" ","M","u","l","t","i","p","l","e"," ","m","a","j","o","r","-","b","o","d","i","e","s"," ","m","a","t","c","h"," ","s","t","r","i","n","g"," ","\"","1","*","\"",NL>>
small_line    == <<" ","M","a","t","c","h","i","n","g"," ","s","m","a","l","l","-","b","o","d","i","e","s",":",NL>>
nomatch_line  == <<" "," "," ","N","o"," ","m","a","t","c","h","e","s"," ","f","o","u","n","d",".",NL>>
listing_line  == <<" "," "," "," ","R","e","c","o","r","d"," ","#"," "," ","E","p","o","c","h","-","y","r"," "," ","P","r","i","m","a","r","y"," ","D","e","s","i","g"," "," ",">","M","A","T","C","H"," ","N","A","M","E","<",NL>>

\* The lines before the header, with and without the line of the target
preamble  == <<target_line, physical_line, GM_line, HG_line>>
anonymous == <<physical_line, GM_line, HG_line>>

\* A response with a data block; header is <<>> or the header line
Page(before, header, block) ==
    before \o header \o <<SOE_line>> \o block \o <<EOE_line>>

\* The responses that tell of several bodies or of none, the marker also on
\* the last line, after a line that reads ahead, and inside the data block
ErrorPages(header, cells) ==
    {<<major_line>>, <<small_line, nomatch_line>>, <<small_line, listing_line>>,
     <<small_line>>, <<small_line, nomatch_line, major_line>>,
     <<major_line, small_line, nomatch_line>>, <<physical_line, major_line>>,
     Page(preamble, header, <<Line(cells), small_line, nomatch_line>>)}

\* The responses with nothing but whole rows
PlainPages(header, cells) == {Page(preamble, header, b) : b \in Blocks(cells, {})}

\* Two rows, the first without a number for the azimuth, the second without
\* a number for the elevation
AZ_EL_block ==
    <<Line([ephemerides_cells EXCEPT ![9] = <<"n",".","a",".">>]),
      Line([ephemerides_cells EXCEPT ![10] = <<"n",".","a",".">>])>>

\* The responses to an OBSERVER request
EphemeridesResponses ==
    {Page(preamble, <<Line(ephemerides_items)>>, b) :
        b \in Blocks(ephemerides_cells,
                     RowVariants(ephemerides_cells, ephemerides_changes, ephemerides_cuts))
              \cup {AZ_EL_block}}
    \cup {Page(preamble, <<Line(space_items)>>, b) :
            b \in Blocks(space_cells, RowVariants(space_cells, space_changes, {}))}
    \cup {Page(anonymous, <<Line(ephemerides_items)>>, b) : b \in Blocks(ephemerides_cells, {})}
    \cup {Page(preamble, <<>>, b) : b \in Blocks(ephemerides_cells, {})}
    \cup ErrorPages(<<Line(ephemerides_items)>>, ephemerides_cells)

\* The responses to an ELEMENTS request
ElementsResponses ==
    {Page(preamble, <<Line(elements_items)>>, b) :
        b \in Blocks(elements_cells,
                     RowVariants(elements_cells, elements_changes, elements_cuts))}
    \cup {Page(anonymous, <<Line(elements_items)>>, b) : b \in Blocks(elements_cells, {})}
    \cup {Page(preamble, <<>>, b) : b \in Blocks(elements_cells, {})}
    \cup ErrorPages(<<Line(elements_items)>>, elements_cells)

AllResponses(op) ==
    IF op = "get_ephemerides" THEN EphemeridesResponses ELSE ElementsResponses

\* The responses of the specification of the targets: whole rows, several
\* bodies, no body
Responses(op) ==
    IF op = "get_ephemerides"
    THEN PlainPages(<<Line(ephemerides_items)>>, ephemerides_cells)
         \cup {<<major_line>>, <<small_line, nomatch_line>>}
    ELSE PlainPages(<<Line(elements_items)>>, elements_cells)
         \cup {<<major_line>>, <<small_line, nomatch_line>>}

\* The lines of the scan specification: a second row with another Julian
\* date, a second line of the target, and the line of H and G with a constant
\* that is no number or is not there.
later_ephemerides_cells == [ephemerides_cells EXCEPT ![2] = <<"2","4","5","7","4","4","5",".","5">>]
later_elements_cells    == [elements_cells EXCEPT ![1] = <<"2","4","5","7","4","4","5",".","5">>]
second_target_line == <<"T","a","r","g","e","t"," ","b","o","d","y"," ","n","a","m","e",":"," ","2"," ","P","a","l","l","a","s"," "," "," "," "," "," "," "," "," "," "," "," "," "," "," "," "," "," "," "," "," "," "," "," ","{","s","o","u","r","c","e",":"," ","J","P","L","#","3","5","}",NL>>
short_target_line  == <<"T","a","r","g","e","t"," ","b","o","d","y"," ","n","a","m","e",":"," ","1"," ","C","e","r","e","s",NL>>
HG_line_no_H   == <<" "," "," "," ","H","="," ","n",".","a","."," "," ","G","="," ",".","1","2","0"," "," ","B","-","V","="," ",".","7","1","3",NL>>
HG_line_no_G   == <<" "," "," "," ","H","="," ","3",".","3","4"," "," ","G","="," ","n",".","a","."," "," ","B","-","V","="," ",".","7","1","3",NL>>
HG_line_none   == <<" "," "," "," ","H","="," ","n",".","a","."," "," ","G","="," ","n",".","a","."," "," ","B","-","V","="," ","n",".","a",".",NL>>
HG_line_G_gone == <<" "," "," "," ","H","="," ","3",".","3","4"," "," ","B","-","V","="," ",".","7","1","3",NL>>
HG_line_H_only == <<" "," "," "," ","H","="," ","3",".","3","4",NL>>
HG_line_blank  == <<NL>>

\* The responses that differ in where the sentinels stand: before is the
\* lines up to the header, a and b are two rows.
SentinelPages(before, a, b) ==
    {before \o <<SOE_line, a, EOE_line, SOE_line, b, EOE_line>>,
     before \o <<a, SOE_line, b, EOE_line>>,
     before \o <<SOE_line, a, EOE_line, b>>,
     before \o <<SOE_line, b, a, EOE_line>>,
     before \o <<SOE_line, a, SOE_line, b, EOE_line>>,
     before \o <<EOE_line, a, SOE_line, b>>}

\* The responses with two lines that hold the header marker, and with none
HeaderPages(header, short, a) ==
    {preamble \o <<header, short, SOE_line, a, EOE_line>>,
     preamble \o <<short, header, SOE_line, a, EOE_line>>,
     preamble \o <<header, SOE_line, a, EOE_line, short>>,
     preamble \o <<SOE_line, a, EOE_line>>}

\* The responses with two lines of the target, and with a short one
TargetPages(header, a) ==
    {<<target_line, second_target_line>> \o anonymous \o <<header, SOE_line, a, EOE_line>>,
     preamble \o <<header, SOE_line, a, EOE_line, second_target_line>>,
     <<short_target_line>> \o anonymous \o <<header, SOE_line, a, EOE_line>>}

\* The responses that differ in the line of H and G
HGLines ==
    {HG_line_no_H, HG_line_no_G, HG_line_none, HG_line_G_gone, HG_line_H_only,
     HG_line_blank}
HGPages(header, a) ==
    {<<target_line, physical_line, GM_line, hg, header, SOE_line, a, EOE_line>> :
        hg \in HGLines}
    \cup {<<target_line, header, SOE_line, a, EOE_line>>}

\* The responses that end on a marker line or on the line after it
EndPages(header, a) ==
    {<<target_line, header, SOE_line, a, EOE_line, physical_line>>,
     <<target_line, header, SOE_line, a, EOE_line, physical_line, GM_line>>,
     <<target_line, header, SOE_line, a, EOE_line, small_line>>,
     <<target_line, header, SOE_line, a, EOE_line, major_line>>,
     <<target_line, header, SOE_line, a, EOE_line, small_line, nomatch_line>>}

ScanPages(header, short, a, b) ==
    SentinelPages(preamble \o <<header>>, a, b) \cup HeaderPages(header, short, a)
    \cup TargetPages(header, a) \cup HGPages(header, a) \cup EndPages(header, a)

\* The responses of the scan specification
ScanResponses(op) ==
    IF op = "get_ephemerides"
    THEN ScanPages(Line(ephemerides_items), Line(short_ephemerides_items),
                   Line(ephemerides_cells), Line(later_ephemerides_cells))
    ELSE ScanPages(Line(elements_items), Line(short_elements_items),
                   Line(elements_cells), Line(later_elements_cells))

\* The parse of every response of the model, computed once and looked up
\* wherever a call reads a response.
ephemerides_outcomes ==
    [src \in EphemeridesResponses \cup ScanResponses("get_ephemerides") |->
        parse_response("get_ephemerides", src)] @@ <<>>
elements_outcomes ==
    [src \in ElementsResponses \cup ScanResponses("get_elements") |->
        parse_response("get_elements", src)] @@ <<>>
outcome(op, src) ==
    IF op = "get_ephemerides" THEN ephemerides_outcomes[src] ELSE elements_outcomes[src]

-----------------------------------------------------------------------------
(* The query object: construction and the method calls.                     *)

Result(op, exc, val, branch) == [op |-> op, exc |-> exc, val |-> val, branch |-> branch]

\* __init__(targetname, smallbody=True, cap=True, comet=False, asteroid=False)
Constructed(names) ==
    /\ targetname \in names
    /\ not_smallbody \in BOOLEAN
    /\ cap \in BOOLEAN
    /\ comet \in BOOLEAN
    /\ asteroid \in BOOLEAN
    /\ start_epoch = None
    /\ stop_epoch = None
    /\ step_size = None
    /\ discreteepochs = None
    /\ url = None
    /\ data = None
    /\ response = None
    /\ urlerrors = 0
    /\ tries = 0
    /\ ret = Result("__init__", "", None, "")
    /\ calls = <<>>

Init == Constructed(TargetNames)

\* The grammar specification constructs with the default hints.
InitGrammar ==
    /\ Constructed(GrammarNames)
    /\ not_smallbody = FALSE
    /\ cap = TRUE
    /\ comet = FALSE
    /\ asteroid = FALSE

target_vars == <<targetname, not_smallbody, cap, comet, asteroid>>
epoch_vars == <<start_epoch, stop_epoch, step_size, discreteepochs>>

Call_parse_comet ==
    /\ ret' = Result("parse_comet", "", comet_table[targetname], "")
    /\ calls' = <<"parse_comet">>
    /\ response' = None
    /\ urlerrors' = 0
    /\ tries' = 0
    /\ UNCHANGED <<target_vars, epoch_vars, url, data>>

Call_parse_asteroid ==
    /\ LET pa == asteroid_table[targetname]
       IN  ret' = Result("parse_asteroid", pa.exc, pa, "")
    /\ calls' = <<"parse_asteroid">>
    /\ response' = None
    /\ urlerrors' = 0
    /\ tries' = 0
    /\ UNCHANGED <<target_vars, epoch_vars, url, data>>

Call_isorbit_record ==
    /\ ret' = Result("isorbit_record", "", BoolV(orbit_table[targetname]), "")
    /\ calls' = <<"isorbit_record">>
    /\ response' = None
    /\ urlerrors' = 0
    /\ tries' = 0
    /\ UNCHANGED <<target_vars, epoch_vars, url, data>>

Call_iscomet ==
    /\ LET ic == iscomet(targetname, comet)
       IN  /\ ret' = Result("iscomet", ic.exc, BoolV(ic.val), "")
           /\ calls' = ic.calls
    /\ response' = None
    /\ urlerrors' = 0
    /\ tries' = 0
    /\ UNCHANGED <<target_vars, epoch_vars, url, data>>

Call_isasteroid ==
    /\ LET ia == isasteroid(targetname, asteroid)
       IN  /\ ret' = Result("isasteroid", ia.exc, BoolV(ia.val), "")
           /\ calls' = ia.calls
    /\ response' = None
    /\ urlerrors' = 0
    /\ tries' = 0
    /\ UNCHANGED <<target_vars, epoch_vars, url, data>>

\* set_epochrange(start_epoch, stop_epoch, step_size)
Call_set_epochrange ==
    \E a \in EpochRanges :
        /\ start_epoch' = a[1]
        /\ stop_epoch' = a[2]
        /\ step_size' = a[3]
        /\ ret' = Result("set_epochrange", "", None, "")
        /\ calls' = <<>>
        /\ response' = None
    /\ urlerrors' = 0
    /\ tries' = 0
    /\ UNCHANGED <<target_vars, discreteepochs, url, data>>

\* set_discreteepochs(discreteepochs)
Call_set_discreteepochs ==
    \E d \in DiscreteEpochs :
        /\ discreteepochs' = IF d.ty = "list" THEN ListV(d.items) ELSE ListV(<<d>>)
        /\ ret' = Result("set_discreteepochs", "", None, "")
        /\ calls' = <<>>
        /\ response' = None
    /\ urlerrors' = 0
    /\ tries' = 0
    /\ UNCHANGED <<target_vars, start_epoch, stop_epoch, step_size, url, data>>

\* The call raises exc before self.url is assigned.
raise(op, exc, tg) ==
    /\ ret' = Result(op, exc, None, tg.branch)
    /\ calls' = tg.calls
    /\ response' = None
    /\ urlerrors' = 0
    /\ tries' = 0
    /\ UNCHANGED <<target_vars, epoch_vars, url, data>>

\* The end of the call: the exception or the value returned, and self.data.
finish(op, tg, o) ==
    /\ ret' = Result(op, o.exc, o.val, tg.branch)
    /\ data' = IF o.stored THEN o.table ELSE data

\* The number the counter of the tries must exceed for the call to give up
MaxRetries == 50

\* The loop with the test `i >= 50`: the call gives up one try earlier
RECURSIVE fetch_gives_up_early(_, _)
fetch_gives_up_early(i, errors) ==
    IF errors = 0 THEN [reached |-> TRUE, tries |-> i + 1]
    ELSE IF i + 1 >= MaxRetries THEN [reached |-> FALSE, tries |-> i + 1]
    ELSE fetch_gives_up_early(i + 1, errors - 1)

\* The loop around urlopen after i tries that raised URLError, with errors
\* more to come before the service answers: the try that raises none ends the
\* loop (`break`), a try that raises adds one to i and ends the call when
\* i > 50.  tries counts the calls of urlopen.
RECURSIVE fetch(_, _)
fetch(i, errors) ==
    IF errors = 0 THEN [reached |-> TRUE, tries |-> i + 1]
    ELSE IF i + 1 > MaxRetries THEN [reached |-> FALSE, tries |-> i + 1]
    ELSE fetch(i + 1, errors - 1)

\* The service answers at once, or raises URLError for longer than the call
\* tries
Failures == {0, MaxRetries + 1}

\* More than 50 tries raised URLError: `return 0`.
unreached(op, tg) ==
    /\ response' = None
    /\ finish(op, tg, Outcome("", FALSE, None, IntV(0)))

\* From `self.url = url` to the return: the request, the scan of the lines
\* and the table; rs are the responses the service can give, fs the numbers
\* of tries it can answer with URLError before it gives one.
request(op, table_type, tg, ep, rs, fs) ==
    /\ url' = [table_type |-> table_type, command |-> tg.command, epochs |-> ep]
    /\ calls' = tg.calls
    /\ \E f \in fs :
          /\ urlerrors' = f
          /\ tries' = fetch(0, f).tries
          /\ IF fetch(0, f).reached
             THEN \E r \in rs : response' = ListV(r) /\ finish(op, tg, outcome(op, r))
             ELSE unreached(op, tg)
    /\ UNCHANGED <<target_vars, epoch_vars>>

\* The epochs of the url, after the target: TLIST, or START_TIME, STOP_TIME
\* and STEP_SIZE, or IOError('no epoch information given').
with_epochs(op, table_type, tg, rs, fs) ==
    IF tg.exc # "" THEN raise(op, tg.exc, tg)
    ELSE IF discreteepochs # None
    THEN request(op, table_type, tg, [tlist |-> discreteepochs.items], rs, fs)
    ELSE IF start_epoch # None /\ stop_epoch # None /\ step_size # None
    THEN request(op, table_type, tg,
                 [start_time |-> start_epoch, stop_time |-> stop_epoch,
                  step_size |-> step_size], rs, fs)
    ELSE raise(op, "IOError: no epoch information given", tg)

\* get_ephemerides(observatory_code) against the responses rs and the
\* failures fs
get_ephemerides(rs, fs) ==
    with_epochs("get_ephemerides", "OBSERVER",
                ephemerides_target(targetname, not_smallbody, cap, comet, asteroid), rs, fs)

\* get_elements() against the responses rs and the failures fs
get_elements(rs, fs) ==
    with_epochs("get_elements", "ELEMENTS",
                elements_target(targetname, not_smallbody, cap, comet, asteroid), rs, fs)

Call_get_ephemerides == get_ephemerides(Responses("get_ephemerides"), Failures)

Call_get_elements == get_elements(Responses("get_elements"), Failures)

\* A Python tuple
TupleV(xs) == [ty |-> "tuple", items |-> xs]

\* self.data[name]: the column of the field, ValueError for a name that is
\* no field of the table
has_field(d, name) == \E c \in 1..Len(d.names) : d.names[c] = name
column(d, name) ==
    ListV([r \in 1..Len(d.rows) |-> d.rows[r][CHOOSE c \in 1..Len(d.names) : d.names[c] = name]])

\* The property fields: self.data.dtype.names, [] on AttributeError
fields(d) == IF d = None THEN ListV(<<>>) ELSE TupleV(d.names)

\* len(self) as the number of the columns of the table
__len___columns(d) == IF d = None THEN IntV(0) ELSE IntV(Len(d.names))

\* len(self): int(self.data.shape[0]), 0 on AttributeError
__len__(d) == IF d = None THEN IntV(0) ELSE IntV(Len(d.rows))

\* The property dates: self.data['datetime'], [] on any exception
dates(d) ==
    IF d = None \/ ~has_field(d, "datetime") THEN ListV(<<>>) ELSE column(d, "datetime")

\* The property dates_jd: self.data['datetime_jd'], [] on any exception
dates_jd(d) ==
    IF d = None \/ ~has_field(d, "datetime_jd") THEN ListV(<<>>)
    ELSE column(d, "datetime_jd")

\* self[key]: None without a table or with an empty one, else self.data[key]
\* with the exceptions of the table for a key that is no field and no row
__getitem__(d, key) ==
    IF d = None \/ Len(d.rows) = 0 THEN [exc |-> "", val |-> None]
    ELSE IF key.ty = "int"
    THEN (IF key.n < Len(d.rows) THEN [exc |-> "", val |-> TupleV(d.rows[key.n + 1])]
          ELSE [exc |-> "IndexError", val |-> None])
    ELSE IF has_field(d, key.f) THEN [exc |-> "", val |-> column(d, key.f)]
    ELSE [exc |-> "ValueError: no field of name", val |-> None]

\* The keys of the model: names of fields and numbers of rows from 0
FieldKey(f) == [ty |-> "field", f |-> f, n |-> 0]
RowKey(k) == [ty |-> "int", f |-> "", n |-> k]
Keys == {FieldKey("RA"), FieldKey("e"), FieldKey("targetname")}
        \cup {RowKey(k) : k \in 0..MaxRows}

\* A call that reads the object and changes none of its attributes
reads(op, exc, val) ==
    /\ ret' = Result(op, exc, val, "")
    /\ calls' = <<>>
    /\ response' = None
    /\ urlerrors' = 0
    /\ tries' = 0
    /\ UNCHANGED <<target_vars, epoch_vars, url, data>>

Call_fields == reads("fields", "", fields(data))

Call___len__ == reads("__len__", "", __len__(data))

Call_dates == reads("dates", "", dates(data))

Call_dates_jd == reads("dates_jd", "", dates_jd(data))

Call___getitem__ ==
    \E key \in Keys :
        reads("__getitem__", __getitem__(data, key).exc, __getitem__(data, key).val)

\* The calls against every response of the model
Read_ephemerides == get_ephemerides(AllResponses("get_ephemerides"), Failures)

Read_elements == get_elements(AllResponses("get_elements"), Failures)

Next ==
    \/ Call_set_epochrange
    \/ Call_set_discreteepochs
    \/ Call_get_ephemerides
    \/ Call_get_elements

Spec == Init /\ [][Next]_vars

NextGrammar ==
    \/ Call_parse_comet
    \/ Call_parse_asteroid
    \/ Call_isorbit_record
    \/ Call_iscomet
    \/ Call_isasteroid

SpecGrammar == InitGrammar /\ [][NextGrammar]_vars

\* The specification of the responses constructs one asteroid by name with the
\* default hints.
ResponseNames == {<<"c","e","r","e","s">>}

InitResponse ==
    /\ Constructed(ResponseNames)
    /\ not_smallbody = FALSE
    /\ cap = TRUE
    /\ comet = FALSE
    /\ asteroid = FALSE

NextResponse ==
    \/ Call_set_discreteepochs
    \/ Read_ephemerides
    \/ Read_elements
    \/ Call_fields
    \/ Call___len__
    \/ Call_dates
    \/ Call_dates_jd
    \/ Call___getitem__

SpecResponse == InitResponse /\ [][NextResponse]_vars

\* The calls against the responses of the scan specification
Scan_ephemerides == get_ephemerides(ScanResponses("get_ephemerides"), Failures)

Scan_elements == get_elements(ScanResponses("get_elements"), Failures)

NextScan ==
    \/ Call_set_discreteepochs
    \/ Scan_ephemerides
    \/ Scan_elements
    \/ Call___getitem__

SpecScan == InitResponse /\ [][NextScan]_vars

\* The responses of the fetch specification: one row, and several bodies
FetchResponses(op) ==
    IF op = "get_ephemerides"
    THEN {Page(preamble, <<Line(ephemerides_items)>>, <<Line(ephemerides_cells)>>), <<major_line>>}
    ELSE {Page(preamble, <<Line(elements_items)>>, <<Line(elements_cells)>>), <<major_line>>}

\* The calls against a service that raises URLError for any number of tries
\* up to one more than the call makes
Fetch_ephemerides == get_ephemerides(FetchResponses("get_ephemerides"), 0..(MaxRetries + 2))

Fetch_elements == get_elements(FetchResponses("get_elements"), 0..(MaxRetries + 2))

NextFetch ==
    \/ Call_set_discreteepochs
    \/ Fetch_ephemerides
    \/ Fetch_elements

SpecFetch == InitResponse /\ [][NextFetch]_vars

-----------------------------------------------------------------------------
(* The classification contract, C1 to C5, over Spec.                        *)

\* The two requests and the five variants a target is classified as
Gets     == {"get_ephemerides", "get_elements"}
Variants == {"opaque_exact", "orbit_record", "comet", "asteroid", "opaque"}

\* C1: classification is total.  For every target string and every
\* combination of the smallbody, comet and asteroid hints a request ends its
\* if/elif chain with exactly one of the five variants selected, never with
\* an error raised while classifying.
C1_ClassificationTotal == ret.op \in Gets => ret.branch \in Variants

\* Exactly six digits, the first a 9
SixDigitsLeading9(s) == Len(s) = 6 /\ s[1] = "9" /\ \A i \in 1..6 : s[i] \in Digit

\* C2: with the smallbody hint true a target whose stripped text is exactly
\* six digits with a leading 9 is classified as an orbit record whatever the
\* comet and asteroid hints and the grammars say, and no other target is ever
\* classified as an orbit record.
C2_OrbitRecordPrecedence ==
    ret.op \in Gets =>
        (ret.branch = "orbit_record"
            <=> (~not_smallbody /\ SixDigitsLeading9(strip(targetname))))

\* C2 happens: an orbit record number with blanks around it and both hints set
C2_Witness ==
    /\ ret.op = "get_elements"
    /\ targetname = <<" ", "9", "0", "0", "1", "9", "1", " ">>
    /\ comet /\ asteroid
    /\ ret.branch = "orbit_record"

\* C3: with the smallbody hint false every target, whatever the comet and
\* asteroid hints, is an opaque exact name: neither the orbit record test nor
\* a grammar is consulted, and the command is the target itself with no DES=
\* prefix, no ';' terminator and no CAP.
C3_ExactPassThrough ==
    (ret.op \in Gets /\ not_smallbody) =>
        /\ ret.branch = "opaque_exact"
        /\ calls = <<>>
        /\ url # None => url.command = Command(FALSE, quote(targetname), FALSE, FALSE)

\* C3 happens: an exact name that looks like an orbit record number, with the
\* comet hint set, reaches the url
C3_Witness ==
    /\ ret.op = "get_ephemerides"
    /\ not_smallbody /\ comet
    /\ targetname = <<"9", "0", "0", "1", "9", "1">>
    /\ url # None
    /\ ret.exc = ""

\* C4: for a small body that is not an orbit record, with the asteroid hint
\* true and the comet hint false, neither request takes the comet branch, even
\* when the comet grammar extracts a designation or a prefix/number.
C4_AsteroidHintExcludesComet ==
    (/\ ret.op \in Gets
     /\ ~not_smallbody /\ asteroid /\ ~comet
     /\ ~orbit_table[targetname]) => ret.branch # "comet"

\* C5: a small body with both hints false that is not an orbit record and from
\* which neither grammar extracts a field is the opaque non-exact name (the
\* final else), not an asteroid.
C5_OpaqueFallback ==
    (/\ ret.op \in Gets
     /\ ~not_smallbody /\ ~asteroid /\ ~comet
     /\ ~orbit_table[targetname]
     /\ comet_table[targetname] = [desig |-> None, prefixnumber |-> None, name |-> None]
     /\ asteroid_table[targetname] =
            [desig |-> None, number |-> None, name |-> None, exc |-> ""])
    => ret.branch = "opaque"

-----------------------------------------------------------------------------
(* The designation grammar, C6 to C10, over SpecGrammar.                    *)

\* C6: for every "<N>P/<name>", N a positive decimal number (zeros allowed
\* after the first digit) and <name> a capitalised name, parse_comet returns
\* (None, "<N>P", "<name>").
C6_NumberedComet ==
    \A n \in Numbers, b \in BodyNames :
        (ret.op = "parse_comet" /\ targetname = n \o <<"P", "/">> \o b)
        => ret.val = [desig |-> None, prefixnumber |-> StrV(n \o <<"P">>), name |-> StrV(b)]

\* C7: for every "(<n>) <Name>", n a positive integer without a leading zero
\* and Name a capitalised word of two letters or more, parse_asteroid returns
\* (None, n, "Name"); for the bare integer "<n>" it returns (None, n, None).
C7_NumberedAsteroid ==
    \A n \in Numbers :
        /\ \A b \in {Einstein, Sy, Halley} :
              (ret.op = "parse_asteroid" /\ targetname = <<"(">> \o n \o <<")", " ">> \o b)
              => ret.val = [desig |-> None, number |-> IntV(int(n)), name |-> StrV(b),
                            exc |-> ""]
        /\ (ret.op = "parse_asteroid" /\ targetname = n)
              => ret.val = [desig |-> None, number |-> IntV(int(n)), name |-> None,
                            exc |-> ""]

\* The decode of a packed character: a digit is its value, an uppercase letter
\* 10 + its index in the alphabet, a lowercase letter 36 + its index.
Decoded(c) ==
    IF c \in Digit THEN IndexOf(c, DigitSeq) - 1
    ELSE IF c \in Upper THEN 9 + IndexOf(c, UpperSeq)
    ELSE 35 + IndexOf(c, LowerSeq)

\* The unpacked form of a packed 7-character designation: the year, a blank,
\* the half-month and order letters, the cycle count without leading zeros.
Unpacked7(p) ==
    LET cycle == 10 * Decoded(p[5]) + Decoded(p[6])
    IN  str(Decoded(p[1])) \o <<p[2], p[3], " ", p[4], p[7]>>
        \o (IF cycle = 0 THEN <<>> ELSE str(cycle))

\* C8: for every packed 7-character designation parse_asteroid returns the
\* unpacked designation, number and name absent, and no other packed
\* designation unpacks to the same text (re-packing gives the original back).
C8_PackedDesignation ==
    (ret.op = "parse_asteroid" /\ targetname \in Packed7) =>
        /\ ret.val = [desig |-> StrV(Unpacked7(targetname)), number |-> None,
                      name |-> None, exc |-> ""]
        /\ \A q \in Packed7 : Unpacked7(q) = Unpacked7(targetname) => q = targetname

\* C9: for every packed 5-character number parse_asteroid returns the integer
\* whose digits are the decoded leading character followed by the four
\* digits, designation and name absent; _char2int is the decode, and it is
\* injective over the 62 characters 0-9, A-Z, a-z.
C9_PackedNumber ==
    (ret.op = "parse_asteroid" /\ targetname \in Packed5) =>
        /\ ret.val = [desig |-> None,
                      number |-> IntV(Decoded(targetname[1]) * 10000
                                      + int(SubSeq(targetname, 2, 5))),
                      name |-> None, exc |-> ""]
        /\ \A c \in Alpha \cup Digit : _char2int(c) = Decoded(c)
        /\ \A c, d \in Alpha \cup Digit : _char2int(c) = _char2int(d) => c = d

\* C9 happens: a packed number with a lowercase leading character
C9_Witness ==
    /\ ret.op = "parse_asteroid"
    /\ targetname = <<"a", "0", "0", "9", "9">>
    /\ ret.val.number = IntV(360099)

\* C10: "PLS<digits>" parses to the designation "<digits> P-L" and
\* "T1S<digits>", "T2S<digits>", "T3S<digits>" to "<digits> T-1", "<digits> T-2",
\* "<digits> T-3", the number staying absent.
C10_PackedSurvey ==
    \A d \in Texts({"2", "0", "4"}, 4) :
    \A k \in {<<<<"P", "L", "S">>, <<"P", "-", "L">>>>,
              <<<<"T", "1", "S">>, <<"T", "-", "1">>>>,
              <<<<"T", "2", "S">>, <<"T", "-", "2">>>>,
              <<<<"T", "3", "S">>, <<"T", "-", "3">>>>} :
        (ret.op = "parse_asteroid" /\ targetname = k[1] \o d)
        => ret.val = [desig |-> StrV(d \o <<" ">> \o k[2]), number |-> None,
                      name |-> None, exc |-> ""]

-----------------------------------------------------------------------------
(* The response contract, C11 to C17, over SpecResponse.                    *)

\* The call that ended last is a request that read a response
Read == ret.op \in Gets /\ response # None

\* The lines of a response that carry an ambiguity marker, and the first
MarkerLines(src) ==
    {i \in 1..Len(src) : contains(src[i], major_marker) \/ contains(src[i], small_marker)}
FirstMarkerLine(src) ==
    CHOOSE i \in MarkerLines(src) : \A j \in MarkerLines(src) : i <= j

Ambiguous == "ValueError: Ambiguous target name"
Unknown   == "ValueError: Unknown target"

\* The error line i of a response stands for
Decision(src, i) ==
    IF contains(src[i], major_marker) THEN Ambiguous
    ELSE IF i < Len(src) /\ contains(src[i + 1], nomatch_marker) THEN Unknown
    ELSE Ambiguous

\* C11: the first line of the response that carries an ambiguity marker
\* decides the outcome of the request, inside or outside the data block: a
\* line with 'Multiple major-bodies match string', or a line with 'Matching
\* small-bodies' whose next line has no 'No matches found', raises the
\* ambiguous-target error, a line with 'Matching small-bodies' whose next line
\* has 'No matches found' raises the unknown-target error, and no later line
\* changes that.
C11_FirstMarkerDecides ==
    (Read /\ MarkerLines(response.items) # {})
        => ret.exc = Decision(response.items, FirstMarkerLine(response.items))

\* C12: a request that ends with the ambiguous-target or the unknown-target
\* error leaves the object without a table, len 0 and no fields, whatever
\* calls came before it on the same object.
C12_ErrorLeavesNoTable ==
    (ret.op \in Gets /\ ret.exc \in {Ambiguous, Unknown})
        => (__len__(data) = IntV(0) /\ fields(data) = ListV(<<>>))

\* The responses with the header and at least one line in the data block,
\* every line the whole row but for one cell changed as in changes
Changed(header, cells, changes) ==
    {Page(preamble, <<Line(header)>>, b) : b \in Blocks(cells, RowVariants(cells, changes, {}))}
    \ {Page(preamble, <<Line(header)>>, <<>>)}

\* The lines of the data block of such a response
RowCount(src) == Len(src) - Len(preamble) - 3

\* The cells that are no number, in the columns read as numbers other than
\* the azimuth and the elevation
NotNumbers(items, changes) ==
    {c \in changes : /\ c[2] = <<"n",".","a",".">>
                     /\ ~contains(items[c[1]], <<"A","z","i","_","(","a","-","a","p","p",")">>)
                     /\ ~contains(items[c[1]], <<"E","l","e","v","_","(","a","-","a","p","p",")">>)}

NumberPages(op) ==
    IF op = "get_ephemerides"
    THEN Changed(ephemerides_items, ephemerides_cells,
                 NotNumbers(ephemerides_items, ephemerides_changes))
    ELSE Changed(elements_items, elements_cells,
                 NotNumbers(elements_items, elements_changes))

\* C13: a cell of a numeric field that is no number (datetime_jd, RA and DEC
\* of an ephemeris row and every field of an elements row included) becomes
\* not-a-number in that field; it never fails the row or the request, the
\* row is kept with its other fields decoded.
C13_NumericFailureIsNaN ==
    (Read /\ response.items \in NumberPages(ret.op))
        => /\ ret.exc = ""
           /\ ret.val = IntV(RowCount(response.items))
           /\ __len__(data) = ret.val

\* The cells whose text is no key of the label tables: solar presence, lunar
\* presence, the elongation flag in its own column and in '/r    S-T-O'
NoLabels == {c \in ephemerides_changes : c[2] \in {<<"x">>, <<"/","X">>}}
NoLabelsSpace == {c \in space_changes : c[2] = <<"/","X"," ","7",".","5">>}

LabelPages ==
    Changed(ephemerides_items, ephemerides_cells, NoLabels)
    \cup Changed(space_items, space_cells, NoLabelsSpace)

\* C14: a cell that is no key of its label table (solar presence, lunar
\* presence, the elongation flag in either layout) gives 'n.a.' in that
\* field and never raises; the rest of the row is decoded and the row kept.
C14_LabelFailureIsNA ==
    (Read /\ ret.op = "get_ephemerides" /\ response.items \in LabelPages)
        => /\ ret.exc = ""
           /\ ret.val = IntV(RowCount(response.items))
           /\ __len__(data) = ret.val

\* The field names the header line of a response gives: those of the table
\* of one whole row under the same header
Schema(src) ==
    IF \E i \in 1..Len(src) : src[i] = Line(ephemerides_items)
    THEN ephemerides_outcomes[Page(preamble, <<Line(ephemerides_items)>>,
                                   <<Line(ephemerides_cells)>>)].table.names
    ELSE IF \E i \in 1..Len(src) : src[i] = Line(space_items)
    THEN ephemerides_outcomes[Page(preamble, <<Line(space_items)>>,
                                   <<Line(space_cells)>>)].table.names
    ELSE IF \E i \in 1..Len(src) : src[i] = Line(elements_items)
    THEN elements_outcomes[Page(preamble, <<Line(elements_items)>>,
                                <<Line(elements_cells)>>)].table.names
    ELSE <<"targetname", "H", "G">>

\* The responses whose rows differ only in the cells of azimuth and elevation
AzElPages ==
    Changed(ephemerides_items, ephemerides_cells,
            {c \in ephemerides_changes :
                \/ contains(ephemerides_items[c[1]], <<"A","z","i","_","(","a","-","a","p","p",")">>)
                \/ contains(ephemerides_items[c[1]], <<"E","l","e","v","_","(","a","-","a","p","p",")">>)})
    \cup {Page(preamble, <<Line(ephemerides_items)>>, AZ_EL_block)}

\* C15: within one response every decoded row has the same ordered field
\* names and the same field count, the list depends only on the header line
\* and not on the cells of a row (not on whether the azimuth or the elevation
\* of a row is a number), and the names the table is built with are those of
\* every stored row.
C15_SchemaFromHeader ==
    /\ (Read /\ ret.exc = "" /\ ret.val # IntV(0))
          => fields(data) = TupleV(Schema(response.items))
    /\ (Read /\ ret.op = "get_ephemerides" /\ response.items \in AzElPages)
          => ret.exc = ""

\* The responses with at least one line in the data block of which one is the
\* row cut short, to fewer cells than the header has
CutPages(op) ==
    IF op = "get_ephemerides"
    THEN {Page(preamble, <<Line(ephemerides_items)>>, b) :
            b \in Blocks(ephemerides_cells,
                         RowVariants(ephemerides_cells, {}, ephemerides_cuts))
                  \ Blocks(ephemerides_cells, {})}
    ELSE {Page(preamble, <<Line(elements_items)>>, b) :
            b \in Blocks(elements_cells, RowVariants(elements_cells, {}, elements_cuts))
                  \ Blocks(elements_cells, {})}

\* C16: a line of the data block with fewer cells than the header requires
\* is dropped silently for both kinds of request: it raises nothing and gives
\* no record, and the other lines are decoded as usual.
C16_ShortLineDropped ==
    (Read /\ response.items \in CutPages(ret.op))
        => /\ ret.exc = ""
           /\ ret.val = IntV(RowCount(response.items) - 1)

\* The responses with a header and a data block without lines
EmptyPages(op) ==
    IF op = "get_ephemerides"
    THEN {Page(preamble, <<Line(ephemerides_items)>>, <<>>),
          Page(preamble, <<Line(space_items)>>, <<>>)}
    ELSE {Page(preamble, <<Line(elements_items)>>, <<>>)}

\* C17: a response whose data block is there and holds no row gives a table
\* with the fields of the header and no rows; the object then differs from
\* one before any request (no table) and from one after a response without
\* a header line.
C17_EmptyBlockGivesEmptyTable ==
    (Read /\ response.items \in EmptyPages(ret.op))
        => /\ ret.exc = ""
           /\ data # None
           /\ fields(data) = TupleV(Schema(response.items))
           /\ __len__(data) = IntV(0)

-----------------------------------------------------------------------------
(* The epochs, the accessors and the command, C18 to C20.                   *)

\* The exceptions a request raises before it assigns self.url
NoEpochs == "IOError: no epoch information given"
TargetErrors == {"NameError", "ValueError", "AttributeError"}

\* The call that ended last is a request that assigned self.url
Issued == ret.op \in Gets /\ ret.exc \notin TargetErrors \cup {NoEpochs}

\* The epoch range (start, stop and step) is set; the discrete epochs are set
RangeSet == start_epoch # None /\ stop_epoch # None /\ step_size # None
ListSet == discreteepochs # None

\* C18: a request is issued only with exactly one of the epoch range and the
\* discrete epoch list set: after any calls of set_epochrange and
\* set_discreteepochs the two are never both set when a request is issued,
\* and with neither set the request raises 'no epoch information given' and
\* issues nothing.
C18_ExactlyOneEpochSource ==
    /\ Issued => (RangeSet /\ ~ListSet) \/ (ListSet /\ ~RangeSet)
    /\ (ret.op \in Gets /\ ~RangeSet /\ ~ListSet /\ ret.exc \notin TargetErrors)
          => ret.exc = NoEpochs

\* C19: without a table (data is None) len() is 0, fields, dates and dates_jd
\* are empty and self[key] is None for every key, none of them raising; with
\* a table of n rows len() is n and fields are the names of its columns.
C19_AccessorsWithoutAndWithTable ==
    /\ (ret.op \in {"__len__", "fields", "dates", "dates_jd", "__getitem__"} /\ data = None)
          => /\ ret.exc = ""
             /\ ret.val = CASE ret.op = "__len__" -> IntV(0)
                            [] ret.op = "__getitem__" -> None
                            [] OTHER -> ListV(<<>>)
    /\ (ret.op = "__len__" /\ data # None)
          => (ret.exc = "" /\ ret.val = IntV(Len(data.rows)))
    /\ (ret.op = "fields" /\ data # None)
          => (ret.exc = "" /\ ret.val = TupleV(data.names))

\* C19 happens: len() on an object whose table has MaxRows rows
C19_Witness ==
    /\ ret.op = "__len__"
    /\ data # None
    /\ Len(data.rows) = MaxRows
    /\ ret.val = IntV(MaxRows)

-----------------------------------------------------------------------------
(* The line scan, C21 to C25, over SpecScan.                                *)

\* The sentinel lines of a response
IsSOE(line) == contains(line, SOE_marker)
IsEOE(line) == contains(line, EOE_marker)

\* Line i is no sentinel line and comes after a '$$SOE' line with no '$$EOE'
\* line between the two
Inside(src, i) ==
    /\ ~IsSOE(src[i])
    /\ ~IsEOE(src[i])
    /\ \E j \in 1..(i - 1) : IsSOE(src[j]) /\ \A k \in (j + 1)..(i - 1) : ~IsEOE(src[k])

\* Those lines from line i on, in the order of the response
RECURSIVE InsideLines(_, _)
InsideLines(src, i) ==
    IF i > Len(src) THEN <<>>
    ELSE (IF Inside(src, i) THEN <<src[i]>> ELSE <<>>) \o InsideLines(src, i + 1)

\* The Julian dates of the lines that give a row: get_ephemerides skips a
\* line of fewer than 16 cells
RECURSIVE JulianDates(_, _)
JulianDates(op, lines) ==
    IF lines = <<>> THEN <<>>
    ELSE IF op = "get_ephemerides" /\ Len(split(Head(lines), ",")) < 16
    THEN JulianDates(op, Tail(lines))
    ELSE <<float(split(Head(lines), ",")[IF op = "get_ephemerides" THEN 2 ELSE 1], "float")>>
         \o JulianDates(op, Tail(lines))

\* C21: the lines the scan collects are exactly the lines strictly after a
\* '$$SOE' line and strictly before the next '$$EOE' line, in the order of the
\* response: no sentinel line is collected, no line before the first '$$SOE'
\* or after a '$$EOE' (and before a further '$$SOE'), and the table keeps the
\* surviving rows in that order.
C21_RowsBetweenSentinels ==
    Read => /\ scan(ret.op, response.items).exc = ""
                => scan(ret.op, response.items).datablock = InsideLines(response.items, 1)
            /\ (ret.exc = "" /\ ret.val # IntV(0) /\ has_field(data, "datetime_jd"))
                => column(data, "datetime_jd")
                     = ListV(JulianDates(ret.op, InsideLines(response.items, 1)))

\* Line i is no '$$EOE' line and comes after a '$$SOE' line with no '$$EOE'
\* line between the two: the block is open when the scan reaches it.
Open(src, i) ==
    /\ ~IsEOE(src[i])
    /\ \E j \in 1..(i - 1) : IsSOE(src[j]) /\ \A k \in (j + 1)..(i - 1) : ~IsEOE(src[k])

RECURSIVE OpenLines(_, _)
OpenLines(src, i) ==
    IF i > Len(src) THEN <<>>
    ELSE (IF Open(src, i) THEN <<src[i]>> ELSE <<>>) \o OpenLines(src, i + 1)

\* C21 as amended: the lines the scan collects are exactly the lines strictly
\* after a '$$SOE' line and strictly before the next '$$EOE' line, in the
\* order of the response: no '$$EOE' line is collected, a '$$SOE' line only
\* when it stands inside a block that is already open, no line before the
\* first '$$SOE' or after a '$$EOE' (and before a further '$$SOE'), and a
\* table that is built keeps the surviving rows in that order.
C21_RowsWhileBlockOpen ==
    Read => /\ scan(ret.op, response.items).exc = ""
                => scan(ret.op, response.items).datablock = OpenLines(response.items, 1)
            /\ (ret.exc = "" /\ ret.val # IntV(0) /\ has_field(data, "datetime_jd"))
                => column(data, "datetime_jd")
                     = ListV(JulianDates(ret.op, OpenLines(response.items, 1)))

\* C21 happens: a response with two data blocks of one row each gives the
\* table of the two rows, the later Julian date last
C21_Witness ==
    /\ Read
    /\ Cardinality({i \in 1..Len(response.items) : IsSOE(response.items[i])}) = 2
    /\ Cardinality({i \in 1..Len(response.items) : IsEOE(response.items[i])}) = 2
    /\ ret.val = IntV(2)
    /\ column(data, "datetime_jd")
         = ListV(<<float(<<"2","4","5","7","4","4","4",".","5">>, "float"), float(<<"2","4","5","7","4","4","5",".","5">>, "float")>>)

\* The lines of a response that hold the header marker of the request
HeaderLines(op, src) == {i \in 1..Len(src) : contains(src[i], header_marker(op))}

\* The cells of the first of them; no cells when no line holds the marker
FirstHeader(op, src) ==
    IF HeaderLines(op, src) = {} THEN <<>>
    ELSE split(src[CHOOSE i \in HeaderLines(op, src) : \A j \in HeaderLines(op, src) : i <= j], ",")

\* The names of the fields a whole row has under a header, with the three
\* fields every row ends with
WholeRow(op) == Line(IF op = "get_ephemerides" THEN ephemerides_cells ELSE elements_cells)
HeaderFields(op, headerline) ==
    decode_items(op, headerline, split(WholeRow(op), ","), 1, row_start).names
    \o <<"targetname", "H", "G">>

\* C22: of several lines that hold the header marker of the request
\* ('Date__(UT)__HR:MN', 'JDTDB,') the first gives the fields of the table and
\* no later one replaces it; when no line holds the marker the header is
\* empty and the table has no field read from the cells.
C22_FirstHeaderLineIsUsed ==
    (Read /\ ret.exc = "" /\ ret.val # IntV(0))
        => /\ fields(data) = TupleV(HeaderFields(ret.op, FirstHeader(ret.op, response.items)))
           /\ HeaderLines(ret.op, response.items) = {}
                => fields(data) = TupleV(<<"targetname", "H", "G">>)

\* The lines of a response that hold 'Target body name', and the first
TargetLines(src) == {i \in 1..Len(src) : contains(src[i], Target_marker)}
FirstTargetLine(src) ==
    src[CHOOSE i \in TargetLines(src) : \A j \in TargetLines(src) : i <= j]

\* Characters 18 to 49 of a line, counted from 0, without the whitespace
\* around them
Label(line) ==
    strip(SubSeq(line, 19, IF Len(line) < 50 THEN Len(line) ELSE 50))

\* C23: of several lines that hold 'Target body name' the first gives the
\* target label of the table, characters 18..49 of the line trimmed, and no
\* later one replaces it.
C23_FirstTargetLineIsKept ==
    (Read /\ ret.exc = "" /\ ret.val # IntV(0))
        => \A r \in 1..Len(data.rows) :
              data.rows[r][Len(data.names) - 2] = StrV(Label(FirstTargetLine(response.items)))

\* The lines of a response that hold the rotational-period marker
RotationLines(src) == {i \in 1..Len(src) : contains(src[i], rotation_marker)}

\* The constant a line gives after `key` ('H=', 'G='): the number the next
\* word reads as, not-a-number when the word is no number or the key is not
\* in the line
Constant(line, key) ==
    IF find(line, key) = -1 THEN NaN
    ELSE IF split_ws(Slice(line, find(line, key) + Len(key), Len(line))) = <<>> THEN NaN
    ELSE number_or_nan(split_ws(Slice(line, find(line, key) + Len(key), Len(line)))[1], "float")

\* H and G as the line two lines after the marker gives them; not-a-number
\* without a marker and without such a line
ConstantOf(src, key) ==
    IF \E i \in RotationLines(src) : i + 2 <= Len(src)
    THEN Constant(src[(CHOOSE i \in RotationLines(src) : i + 2 <= Len(src)) + 2], key)
    ELSE NaN

\* C24: H and G start as not-a-number and are read independently of each other
\* from the line two lines after the rotational-period marker: an H that is no
\* number leaves H not-a-number while G is read, a G that is no number leaves
\* G not-a-number while H is read, and a constant that is no number or is not
\* there never fails the scan.
C24_HGIndependent ==
    (Read /\ Cardinality(RotationLines(response.items)) <= 1
          /\ MarkerLines(response.items) = {})
        => /\ scan(ret.op, response.items).exc = ""
           /\ (ret.exc = "" /\ ret.val # IntV(0))
                => \A r \in 1..Len(data.rows) :
                      /\ data.rows[r][Len(data.names) - 1] = ConstantOf(response.items, <<"H", "=">>)
                      /\ data.rows[r][Len(data.names)] = ConstantOf(response.items, <<"G", "=">>)

\* The last three values of row r of a table
LastThree(d, r) == SubSeq(d.rows[r], Len(d.names) - 2, Len(d.names))

\* C25: in every table targetname, H and G are the last three columns, in
\* that order, and each holds the same value in every row: the one value the
\* scan of the lines captured, not a value read from the cells of the row.
C25_TargetColumnsLastAndConstant ==
    /\ data # None
          => /\ Len(data.names) >= 3
             /\ SubSeq(data.names, Len(data.names) - 2, Len(data.names))
                  = <<"targetname", "H", "G">>
             /\ \A r \in 1..Len(data.rows) : LastThree(data, r) = LastThree(data, 1)
    /\ (Read /\ ret.exc = "" /\ ret.val # IntV(0))
          => \A r \in 1..Len(data.rows) :
                LastThree(data, r)
                  = <<StrV(Label(response.items[CHOOSE i \in TargetLines(response.items) :
                                                    \A j \in TargetLines(response.items) : i >= j])),
                      scan(ret.op, response.items).H, scan(ret.op, response.items).G>>

\* C25 happens: a table of two rows whose last three columns hold '1 Ceres',
\* 3.34 and .120 in both rows
C25_Witness ==
    /\ Read
    /\ ret.val = IntV(2)
    /\ \A r \in 1..2 :
          LastThree(data, r) = <<StrV(<<"1"," ","C","e","r","e","s">>), float(<<"3",".","3","4">>, "float"), float(<<".","1","2","0">>, "float")>>

-----------------------------------------------------------------------------
(* The command of an asteroid, the table after a call, the fetch and the    *)
(* epochs, C26 to C29.                                                      *)

\* The component of an asteroid the command names: the designation, else the
\* number, else the name, else the target as it was given
Chosen(t) ==
    IF asteroid_table[t].desig # None THEN asteroid_table[t].desig
    ELSE IF asteroid_table[t].number # None THEN asteroid_table[t].number
    ELSE IF asteroid_table[t].name # None THEN asteroid_table[t].name
    ELSE StrV(t)

\* C26: for a target classified as an asteroid the command names the first
\* of designation, number and name that is there (the target itself when none
\* is), followed by ';' and without DES=; rendering succeeds and gives the
\* same command for get_ephemerides and get_elements, also when the component
\* is the integer number.
C26_AsteroidCommand ==
    (ret.op \in Gets /\ ret.branch = "asteroid" /\ asteroid_table[targetname].exc = "")
        => /\ ret.exc \notin TargetErrors
           /\ Issued => url.command
                          = Command(FALSE, quote(str_of(Chosen(targetname))), TRUE, FALSE)

\* C27: after any calls on one object, whenever get_ephemerides or
\* get_elements returns a number n without raising, len() of the object is n
\* and the table is the one of that call's response: a call that returns 0 (no
\* row survived, or the service was not reached) does not leave the rows of an
\* earlier call visible.
C27_LenIsWhatTheCallReturned ==
    (ret.op \in Gets /\ ret.exc = "")
        => /\ __len__(data) = ret.val
           /\ (response # None /\ ret.val # IntV(0))
                => data = outcome(ret.op, response.items).table

\* C28: the loop around urlopen ends: the request is tried at most 51 times,
\* the first try that raises no URLError ends the loop and the lines it gave
\* are parsed, and when 51 tries raise URLError the call returns 0 and raises
\* nothing, with the url recorded and the table left as it was.
C28_FetchLoopEnds ==
    [][(ret'.op \in Gets /\ Issued')
          => /\ tries' \in 1..(MaxRetries + 1)
             /\ urlerrors' <= MaxRetries
                  => /\ tries' = urlerrors' + 1
                     /\ response' # None
                     /\ ret'.exc = outcome(ret'.op, response'.items).exc
                     /\ ret'.val = outcome(ret'.op, response'.items).val
             /\ urlerrors' > MaxRetries
                  => /\ tries' = MaxRetries + 1
                     /\ response' = None
                     /\ ret'.exc = ""
                     /\ ret'.val = IntV(0)
                     /\ url' # None
                     /\ url'.table_type = (IF ret'.op = "get_ephemerides" THEN "OBSERVER" ELSE "ELEMENTS")
                     /\ data' = data]_vars

\* C28 happens: 51 tries raise URLError on an object that holds the table of
\* an earlier call
C28_Witness ==
    /\ Issued
    /\ urlerrors > MaxRetries
    /\ tries = MaxRetries + 1
    /\ response = None
    /\ ret.val = IntV(0)
    /\ data # None

\* C29: get_ephemerides and get_elements called with neither the discrete
\* epochs nor a whole epoch range (start, stop and step) raise 'no epoch
\* information given' before any try to reach the service, and leave the url,
\* the table, the epochs and the target of the object as they were.
C29_NoEpochsRaisesAndChangesNothing ==
    [][(ret'.op \in Gets /\ ~ListSet /\ ~RangeSet)
          => /\ ret'.exc = NoEpochs
             /\ tries' = 0
             /\ UNCHANGED <<url, data, epoch_vars, target_vars>>]_vars

-----------------------------------------------------------------------------
(* The look-ahead of the line scan, C30, over SpecScan.                     *)

\* C30: for every response every look-ahead of the scan stays inside the
\* response: the line after a 'Matching small-bodies' line, the second line
\* after a 'rotational period in hours)' line, and parts 1 and 2 of that line
\* split at '='.  The scan ends normally or with one of the two target errors
\* (ambiguous, unknown) and with no other error, also when a marker is on the
\* last line or on the line before it.
C30_LookAheadInBounds ==
    Read => scan(ret.op, response.items).exc \in {"", Ambiguous, Unknown}

=============================================================================
